---- MODULE Spec2Model ----
(***************************************************************************)
(* Day-stepped cooperation simulator (convex/simulation): seeded RNG,      *)
(* seasonal environment, task planner, cognition engine, social network    *)
(* and the CooperationSimulation orchestrator with serialize / fromState.  *)
(*                                                                         *)
(* Real-valued quantities are fixed-point integers in thousandths          *)
(* (Scale); a 32-bit word is a pair <<hi, lo>> of 16-bit halves.           *)
(*                                                                         *)
(* A local constant of the source is bound as The({body : x \in {value}}): *)
(* the value is computed once and body reads it under the name x.          *)
(***************************************************************************)
EXTENDS Integers, Sequences, FiniteSets, TLC

\* ------------------------------------------------------------------ bounds
\* Days a run is stepped through.
MaxDay == 3
\* serialize() calls made on one run.
MaxSerialize == 1

\* the most values drawn from the generator before a direct call of assignTasks
MaxDrawsBefore == 2

\* the most items of a plan passed to a direct call of orderTasksByPlan
MaxPlanItems == 3

\* the largest agentPopulation.size passed to a direct call of initialize
MaxAgents == 4

\* how many times a scenario is applied to the world
MaxApplies == 3

\* ------------------------------------------------------- fixed-point reals
Scale == 1000
Half == 65536

\* the element of a one-element set
The(S) == CHOOSE result \in S : TRUE

Max(a, b) == IF a >= b THEN a ELSE b
Min(a, b) == IF a <= b THEN a ELSE b

\* a * b on thousandths
Mul(a, b) == (a * b) \div Scale

\* a / b on thousandths (b # 0)
Div(a, b) == (a * Scale) \div b

clamp(value, min, max) == Max(min, Min(max, value))

\* --------------------------------------------------------- 32-bit words
\* x XOR y on 0..15
Xor4 ==
  [x \in 0..15, y \in 0..15 |->
     LET b(v, i) == (v \div (2 ^ i)) % 2
     IN  ((b(x, 0) + b(y, 0)) % 2)
       + 2 * ((b(x, 1) + b(y, 1)) % 2)
       + 4 * ((b(x, 2) + b(y, 2)) % 2)
       + 8 * ((b(x, 3) + b(y, 3)) % 2)]

\* x XOR y on 0..65535
Xor16(x, y) ==
    Xor4[(x % 16), (y % 16)]
  + 16 * Xor4[(x \div 16) % 16, (y \div 16) % 16]
  + 256 * Xor4[(x \div 256) % 16, (y \div 256) % 16]
  + 4096 * Xor4[x \div 4096, y \div 4096]

\* a ^ b
WXor(a, b) == <<Xor16(a[1], b[1]), Xor16(a[2], b[2])>>

\* a >>> k, 0 < k < 16
WShr(a, k) ==
  <<a[1] \div (2 ^ k), ((a[1] % (2 ^ k)) * (2 ^ (16 - k))) + (a[2] \div (2 ^ k))>>

\* (a + b) | 0, as a bit pattern
WAdd(a, b) ==
  <<(a[1] + b[1] + ((a[2] + b[2]) \div Half)) % Half, (a[2] + b[2]) % Half>>

\* (x * y) mod 2^16 for 16-bit x, y
MulLow16(x, y) == (((((x \div 256) * y) % 256) * 256) + ((x % 256) * y)) % Half

\* Math.imul(a, b), as a bit pattern: p1 and p0 are the products of the two bytes of the
\* low half of a with the low half of b
WImul(a, b) ==
  The({ The({ <<((((p1 \div 256) + (low \div Half)) % Half)
                 + ((MulLow16(a[1], b[2]) + MulLow16(a[2], b[1])) % Half)) % Half,
                low % Half>>
              : low \in {((p1 % 256) * 256) + p0} })
        : p1 \in {(a[2] \div 256) * b[2]}, p0 \in {(a[2] % 256) * b[2]} })

\* 1 | a
WOr1(a) == <<a[1], a[2] + (1 - (a[2] % 2))>>

\* 61 | a   (61 = 111101b: every low bit but bit 1 is set)
WOr61(a) == <<a[1], (a[2] - (a[2] % 64)) + 61 + 2 * ((a[2] \div 2) % 2)>>

\* ---------------------------------------------------------- SeededRandom
RngIncHi == 27947
RngIncLo == 31221

\* new SeededRandom(seed): state = seed >>> 0, for 0 <= seed < 2^31
SeededRandom(seed) == <<seed \div Half, seed % Half>>

\* the state after one next()
RngAdvance(state) == WAdd(state, <<RngIncHi, RngIncLo>>)

\* t = Math.imul(state ^ (state >>> 15), 1 | state)
RngMix1(state) ==
  The({ WImul(x, WOr1(state)) : x \in {WXor(state, WShr(state, 15))} })

\* (t + Math.imul(t ^ (t >>> 7), 61 | t)) ^ t
RngMix2(t) ==
  The({ The({ WXor(WAdd(t, product), t) : product \in {WImul(x, WOr61(t))} })
        : x \in {WXor(t, WShr(t, 7))} })

\* the 32-bit numerator of the value next() returns from the advanced state
RngOutput(state) ==
  The({ The({ WXor(t2, WShr(t2, 14)) : t2 \in {RngMix2(t1)} }) : t1 \in {RngMix1(state)} })

\* rng.next(): [state |-> new state, word |-> w], the value returned is w / 2^32
RngNext(state) ==
  The({ [state |-> s, word |-> RngOutput(s)] : s \in {RngAdvance(state)} })

\* the state after n calls of next(): the state advances by the same increment each call
RngSkip(state, n) ==
  The({ WAdd(s, <<((n * RngIncHi) + ((n * RngIncLo) \div Half)) % Half, (n * RngIncLo) % Half>>)
        : s \in {state} })

\* the n-th next() from state, n >= 1
RngDraw(state, n) == RngNext(RngSkip(state, n - 1))

\* word / 2^32 < p / Scale, for a probability p in thousandths (may exceed 0..Scale)
WordBelow(w, p) ==
  IF p <= 0 THEN FALSE
  ELSE IF p >= Scale THEN TRUE
  ELSE (w[1] * Scale) + ((w[2] * Scale) \div Half) < p * Half

\* Math.floor((word / 2^32) * n) for a small integer n
WordTimes(w, n) == ((w[1] * n) + ((w[2] * n) \div Half)) \div Half

\* word / 2^32 in thousandths (truncated)
WordMilli(w) == (w[1] * Scale) \div Half

SeedFracBits == 8388608

RECURSIVE TimesFive(_, _, _)
\* (int + frac / 2^23) * 5^k, truncated to an integer
TimesFive(int, frac, k) ==
  IF k = 0 THEN int
  ELSE The({ TimesFive(i, f, k - 1)
             : i \in {(int * 5) + ((frac * 5) \div SeedFracBits)},
               f \in {(frac * 5) % SeedFracBits} })

\* Math.floor((word / 2^32) * 1_000_000_000)   (10^9 / 2^32 = 5^9 / 2^23)
NextSeed(w) == TimesFive(w[1] \div 128, ((w[1] % 128) * Half) + w[2], 9)

\* ------------------------------------------------- Math.* on thousandths
RECURSIVE SqrtIter(_, _)
SqrtIter(n, x) ==
  The({ IF y >= x THEN x ELSE SqrtIter(n, y) : y \in {(x + (n \div x)) \div 2} })

\* floor(sqrt(n)) for an integer n >= 0
ISqrt(n) == IF n <= 0 THEN 0 ELSE SqrtIter(n, Min(n, 46340))

\* Math.sqrt on thousandths
Sqrt(x) == The({ ISqrt(v * Scale) : v \in {x} })

RECURSIVE Log2Floor(_)
Log2Floor(n) == IF n < 2 THEN 0 ELSE 1 + Log2Floor(n \div 2)

\* ln m in thousandths for 1 <= m < 2: 2 (y + y^3/3 + y^5/5), y = (m - 1) / (m + 1)
LnMantissa(m) ==
  The({ The({ 2 * (y + (y3 \div 3) + (Mul(Mul(y3, y), y) \div 5))
              : y3 \in {Mul(Mul(y, y), y)} })
        : y \in {Div(m - Scale, m + Scale)} })

\* Math.log(n) in thousandths for an integer n >= 1: k ln 2 + ln m, 1 <= m < 2
LnInt(n) ==
  The({ ((k * 693147) \div Scale) + LnMantissa((n * Scale) \div (2 ^ k))
        : k \in {Log2Floor(n)} })

\* Math.log(x) for x > 0 in thousandths
Ln(x) == LnInt(x) - 6908

\* Math.log(word / 2^32) for a nonzero word (the top half decides, else the low half)
LnWord(w) == IF w[1] > 0 THEN LnInt(w[1]) - 11090 ELSE LnInt(w[2]) - 22181

\* Math.cos(theta) for 0 <= theta <= pi/2
CosQuarter(theta) ==
  The({ The({ Scale - (t2 \div 2) + (t4 \div 24) - (Mul(t4, t2) \div 720)
              : t4 \in {Mul(t2, t2)} })
        : t2 \in {Mul(theta, theta)} })

\* Math.cos(2 * Math.PI * word / 2^32)
CosTurn(w) ==
  The({ IF u < 250 THEN CosQuarter((u * 6283) \div Scale)
        ELSE IF u < 500 THEN 0 - CosQuarter(3142 - ((u * 6283) \div Scale))
        ELSE IF u < 750 THEN 0 - CosQuarter(((u * 6283) \div Scale) - 3142)
        ELSE CosQuarter(6283 - ((u * 6283) \div Scale))
        : u \in {WordMilli(w)} })

\* Math.exp(r) for |r| <= ln 2
ExpSmall(r) ==
  The({ The({ Scale + r + (r2 \div 2) + (r3 \div 6) + (Mul(r3, r) \div 24)
              : r3 \in {Mul(r2, r)} })
        : r2 \in {Mul(r, r)} })

\* Math.exp(x), -20 < x < 14 in units
Exp(x) ==
  The({ IF k >= 0 THEN ExpSmall(v - (k * 693)) * (2 ^ Min(k, 20))
        ELSE ExpSmall(v - (k * 693)) \div (2 ^ Min(0 - k, 30))
        : v \in {x}, k \in {x \div 693} })

\* Math.pow(u, 1 / shape) for 0 < u < 1
PowInv(u, shape) == Exp(Div(Ln(u), shape))

\* Math.sqrt(-2 * Math.log(u1)) * Math.cos(2 * Math.PI * u2); u1 is a nonzero word
BoxMuller(w1, w2) == Mul(Sqrt(0 - (2 * LnWord(w1))), CosTurn(w2))

\* Math.sqrt(-2 * Math.log(1e-6)) * Math.cos(2 * Math.PI * u2)
BoxMullerTiny(w2) == Mul(5257, CosTurn(w2))

\* ------------------------------------------------------ sampleNormal
\* two draws; the first replaced by 1e-6 when it is exactly 0
sampleNormal(state, mean, std) ==
  The({ [state |-> d2.state,
         value |-> mean + Mul(std, IF d1.word = <<0, 0>> THEN BoxMullerTiny(d2.word)
                                   ELSE BoxMuller(d1.word, d2.word))]
        : d1 \in {RngDraw(state, 1)}, d2 \in {RngDraw(state, 2)} })

\* the sampleNormal call made after n earlier draws from state
sampleNormalAt(state, n, mean, std) == sampleNormal(RngSkip(state, n), mean, std)

\* ------------------------------------------------------- environment.ts
\* v * v * v
Cube(v) == Mul(Mul(v, v), v)

\* the two acceptance tests of gammaSample on the third draw u (word w3), with v = 1 + c x
GammaAccepts(d, x, v, w3) ==
  \/ WordBelow(w3, Scale - ((331 * Mul(Mul(x, x), Mul(x, x))) \div 10000))
  \/ w3 = <<0, 0>>
  \/ LnWord(w3) < (Mul(x, x) \div 2) + Mul(d, Scale - Cube(v) + Ln(Cube(v)))

RECURSIVE gammaLoop(_, _, _, _)
\* the while (true) loop of gammaSample for shape >= 1: d = shape - 1/3, c = 1 / sqrt(9 d)
gammaLoop(state, d, c, scale) ==
  The({ The({ IF d1.word = <<0, 0>>
                THEN \* log(0): x is -Infinity (v <= 0, draw again), or +Infinity / NaN
                     \* (both tests fail after the third draw)
                     IF CosTurn(d2.word) < 0 THEN gammaLoop(d2.state, d, c, scale)
                     ELSE gammaLoop(d3.state, d, c, scale)
              ELSE IF Scale + Mul(c, x) <= 0 THEN gammaLoop(d2.state, d, c, scale)
              ELSE IF GammaAccepts(d, x, Scale + Mul(c, x), d3.word)
                THEN [state |-> d3.state, value |-> Mul(Mul(scale, d), Cube(Scale + Mul(c, x)))]
              ELSE gammaLoop(d3.state, d, c, scale)
              : x \in {IF d1.word = <<0, 0>> THEN 0 ELSE BoxMuller(d1.word, d2.word)} })
        : d1 \in {RngDraw(state, 1)}, d2 \in {RngDraw(state, 2)}, d3 \in {RngDraw(state, 3)} })

RECURSIVE gammaSample(_, _, _)
gammaSample(state, shape, scale) ==
  IF shape < Scale
    THEN The({ The({ [state |-> g.state,
                      value |-> IF WordMilli(d0.word) = 0 THEN 0
                                ELSE Mul(g.value, PowInv(WordMilli(d0.word), shape))]
                     : g \in {gammaSample(d0.state, shape + Scale, scale)} })
               : d0 \in {RngNext(state)} })
  ELSE gammaLoop(state, shape - 333, Div(Scale, Sqrt(9 * (shape - 333))), scale)

logGaussianSample(state, mean, variance) ==
  The({ [state |-> d2.state,
         value |-> Exp(mean + Mul(Sqrt(variance),
                                  IF d1.word = <<0, 0>> THEN BoxMullerTiny(d2.word)
                                  ELSE BoxMuller(d1.word, d2.word)))]
        : d1 \in {RngDraw(state, 1)}, d2 \in {RngDraw(state, 2)} })

clampRisk(rate) == Max(0, Min(Scale, rate))

\* partial[key] ?? 0 for an optional map
OrZero(partial, key) == IF key \in DOMAIN partial THEN partial[key] ELSE 0

\* rng.range(min, max)
RngRange(state, min, max) ==
  The({ [state |-> d.state, value |-> min + Mul(max - min, WordMilli(d.word))]
        : d \in {RngNext(state)} })

\* SeasonalEnvironment.composeHazard
composeHazard(cfg, seasonIndex) ==
  LET season == cfg.seasons[(seasonIndex % Len(cfg.seasons)) + 1]
      seasonal == IF season.name \in DOMAIN cfg.hazards.seasonal
                    THEN cfg.hazards.seasonal[season.name]
                    ELSE [x \in {} |-> 0]
  IN  [injury |-> clampRisk(cfg.hazards.base.injury + OrZero(seasonal, "injury")),
       hypothermia |-> clampRisk(cfg.hazards.base.hypothermia + OrZero(seasonal, "hypothermia")),
       predator |-> clampRisk(cfg.hazards.base.predator + OrZero(seasonal, "predator"))]

\* SeasonalEnvironment.initialize: the initial EnvironmentState
EnvInitialize(cfg) ==
  [day |-> 0,
   seasonIndex |-> 0,
   seasonDay |-> 0,
   resourceLevel |-> [plants |-> cfg.resources.basePlantRate,
                      smallGame |-> cfg.resources.baseSmallGameRate,
                      largeGame |-> cfg.resources.baseLargeGameRate],
   climateShock |-> 0,
   riskModifier |-> composeHazard(cfg, 0)]

\* a tick that never wraps the season around: past the last season it stays there
TickStateNoWrap(cfg, nextDay, gammaValue, shockValue, logGValue) ==
  LET seasonLength == cfg.timeline.seasonLengthDays
      seasonIndex == Min(nextDay \div seasonLength, Len(cfg.seasons) - 1)
      season == cfg.seasons[seasonIndex + 1]
      baseMultiplier == Mul(season.resourceMultiplier, Max(100, gammaValue + shockValue))
  IN  [day |-> nextDay,
       seasonIndex |-> seasonIndex,
       seasonDay |-> nextDay % seasonLength,
       resourceLevel |->
         [plants |-> Mul(Mul(cfg.resources.basePlantRate, baseMultiplier), logGValue),
          smallGame |-> Mul(Mul(cfg.resources.baseSmallGameRate, baseMultiplier), 800),
          largeGame |-> Mul(cfg.resources.baseLargeGameRate, baseMultiplier)
                        + OrZero(cfg.resources.seasonalLargeGameBonus, season.name)],
       climateShock |-> shockValue,
       riskModifier |-> composeHazard(cfg, seasonIndex)]

\* the EnvironmentState of tick from its three samples
TickState(cfg, nextDay, gammaValue, shockValue, logGValue) ==
  LET seasonLength == cfg.timeline.seasonLengthDays
      seasonIndex == (nextDay \div seasonLength) % Len(cfg.seasons)
      season == cfg.seasons[seasonIndex + 1]
      baseMultiplier == Mul(season.resourceMultiplier, Max(100, gammaValue + shockValue))
  IN  [day |-> nextDay,
       seasonIndex |-> seasonIndex,
       seasonDay |-> nextDay % seasonLength,
       resourceLevel |->
         [plants |-> Mul(Mul(cfg.resources.basePlantRate, baseMultiplier), logGValue),
          smallGame |-> Mul(Mul(cfg.resources.baseSmallGameRate, baseMultiplier), 800),
          largeGame |-> Mul(cfg.resources.baseLargeGameRate, baseMultiplier)
                        + OrZero(cfg.resources.seasonalLargeGameBonus, season.name)],
       climateShock |-> shockValue,
       riskModifier |-> composeHazard(cfg, seasonIndex)]

\* the season of the day after env.day
NextSeason(cfg, env) ==
  cfg.seasons[(((env.day + 1) \div cfg.timeline.seasonLengthDays) % Len(cfg.seasons)) + 1]

\* SeasonalEnvironment.tick: [state |-> rng state, env |-> new EnvironmentState]
tick(cfg, env, state) ==
  The({ The({ The({ [state |-> logG.state,
                     env |-> TickState(cfg, env.day + 1, gamma.value, shock.value, logG.value)]
                    : logG \in {IF Len(cfg.resources.logGaussian) > 0
                                  THEN logGaussianSample(shock.state,
                                                         cfg.resources.logGaussian[1].mean,
                                                         cfg.resources.logGaussian[1].variance)
                                  ELSE [state |-> shock.state, value |-> Scale]} })
              : shock \in {IF NextSeason(cfg, env).climateNoise # 0
                             THEN RngRange(gamma.state, 0 - NextSeason(cfg, env).climateNoise,
                                           NextSeason(cfg, env).climateNoise)
                             ELSE [state |-> gamma.state, value |-> 0]} })
        : gamma \in {gammaSample(state, cfg.resources.poissonGamma.shape,
                                 cfg.resources.poissonGamma.scale)} })

\* ------------------------------------------------------ scenario configs
\* the characters of the strings scenarios use for task ids and names
Chars ==
  [s \in {"hunt", "Hunt", "forage", "camp_maintenance", "Camp maintenance"} |->
     CASE s = "hunt" -> <<"h", "u", "n", "t">>
       [] s = "Hunt" -> <<"H", "u", "n", "t">>
       [] s = "forage" -> <<"f", "o", "r", "a", "g", "e">>
       [] s = "camp_maintenance" ->
            <<"c", "a", "m", "p", "_", "m", "a", "i", "n", "t", "e", "n", "a", "n", "c", "e">>
       [] s = "Camp maintenance" ->
            <<"C", "a", "m", "p", " ", "m", "a", "i", "n", "t", "e", "n", "a", "n", "c", "e">>]

TaskHunt ==
  [id |-> "hunt", name |-> "Hunt", category |-> "hunting",
   successProbability |-> 450,
   yieldPerParticipant |-> <<>>, yieldPerParticipantOnSuccess |-> <<9000>>,
   energyCost |-> 1200, injuryRiskMultiplier |-> 3000,
   minParticipants |-> 2, recommendedParticipants |-> 3,
   norm |-> "key_contributor_reward"]

TaskForage ==
  [id |-> "forage", name |-> "forage", category |-> "foraging",
   successProbability |-> 700,
   yieldPerParticipant |-> <<4000>>, yieldPerParticipantOnSuccess |-> <<>>,
   energyCost |-> 600, injuryRiskMultiplier |-> 1000,
   minParticipants |-> 1, recommendedParticipants |-> 2,
   norm |-> "equal_share"]

TaskMaintenance ==
  [id |-> "camp_maintenance", name |-> "Camp maintenance", category |-> "public_good",
   successProbability |-> 900,
   yieldPerParticipant |-> <<>>, yieldPerParticipantOnSuccess |-> <<>>,
   energyCost |-> 300, injuryRiskMultiplier |-> 200,
   minParticipants |-> 2, recommendedParticipants |-> 2,
   norm |-> "collective_penalty"]

\* a paid public-good task under the collective_penalty norm, one or two agents
TaskWatch ==
  [id |-> "night_watch", name |-> "Night watch", category |-> "public_good",
   successProbability |-> 500,
   yieldPerParticipant |-> <<2000>>, yieldPerParticipantOnSuccess |-> <<>>,
   energyCost |-> 400, injuryRiskMultiplier |-> 500,
   minParticipants |-> 1, recommendedParticipants |-> 2,
   norm |-> "collective_penalty"]

\* a scenario in the shape of ScenarioConfig (the fields the simulation reads)
BaseConfig ==
  [name |-> "hadza",
   displayName |-> "Hadza",
   timeline |-> [seasonLengthDays |-> 2, dailyMicroInteractions |-> <<"share_meal">>],
   seasons |-> <<[name |-> "spring", resourceMultiplier |-> 1000, climateNoise |-> 200],
                 [name |-> "winter", resourceMultiplier |-> 600, climateNoise |-> 0]>>,
   resources |-> [basePlantRate |-> 5000, baseSmallGameRate |-> 2000, baseLargeGameRate |-> 1000,
                  poissonGamma |-> [shape |-> 2000, scale |-> 1000],
                  logGaussian |-> <<[mean |-> 0, variance |-> 40]>>,
                  seasonalLargeGameBonus |-> [n \in {"winter"} |-> 500]],
   hazards |-> [base |-> [injury |-> 100, hypothermia |-> 50, predator |-> 50],
                seasonal |-> [n \in {"winter"} |-> [k \in {"hypothermia"} |-> 300]]],
   tasks |-> <<TaskHunt, TaskForage, TaskMaintenance>>,
   agentPopulation |-> [size |-> 3,
                        skillProfiles |-> <<[key |-> "gathering", mean |-> 600, std |-> 200],
                                            [key |-> "hunting", mean |-> 450, std |-> 300]>>,
                        socialPreferences |-> [alphaMean |-> 800, alphaStd |-> 200,
                                               betaMean |-> 400, betaStd |-> 100,
                                               reputationWeight |-> 500, normPenalty |-> 300]],
   cognition |-> [socialMemoryHorizonDays |-> 1, episodicWindowDays |-> 1,
                  reflectionIntervalDays |-> 2,
                  emotion |-> [decay |-> 100, baselineValence |-> 0, baselineArousal |-> 300]],
   network |-> [decay |-> 900],
   logging |-> [eventLog |-> TRUE, taskLog |-> TRUE, causalGraph |-> FALSE],
   defaults |-> [dailyEnergyNeed |-> 2000]]

\* ---------------------------------------------- random.ts: agents
\* a buildAgentId that numbers the agents from zero
buildAgentIdFromZero(index) == index

\* buildAgentId(index): agent_<index + 1>, kept as the number index + 1
buildAgentId(index) == index + 1

Camps == <<"Camp-A", "Camp-B", "Camp-C">>

\* the forEach over Object.entries(skillProfiles): one clamped normal sample per key,
\* the k-th after 2 (k - 1) draws
SampleSkills(state, profiles) ==
  [key \in {profiles[k].key : k \in 1..Len(profiles)} |->
     LET k == CHOOSE j \in 1..Len(profiles) : profiles[j].key = key
     IN  clamp(sampleNormalAt(state, 2 * (k - 1), profiles[k].mean, profiles[k].std).value, 0, 1200)]

\* draws of one iteration of the loop of initializeAgents: two per normal sample
DrawsPerAgent(cfg) == 2 * (Len(cfg.agentPopulation.skillProfiles) + 9)

\* one iteration of the loop of initializeAgents, from the rng state it starts in
InitAgent(cfg, state, i) ==
  LET sp == cfg.agentPopulation.socialPreferences
      n == 2 * Len(cfg.agentPopulation.skillProfiles)
      alpha == sampleNormalAt(state, n, sp.alphaMean, sp.alphaStd)
      beta == sampleNormalAt(state, n + 2, sp.betaMean, sp.betaStd)
      reputationWeight == sampleNormalAt(state, n + 4, sp.reputationWeight, 100)
      normPenalty == sampleNormalAt(state, n + 6, sp.normPenalty, 100)
      riskTolerance == sampleNormalAt(state, n + 8, 500, 200)
      normativeAlignment == sampleNormalAt(state, n + 10, 600, 200)
      socialGoalWeight == sampleNormalAt(state, n + 12, 550, 150)
      survivalGoalWeight == sampleNormalAt(state, n + 14, 700, 150)
      memoryFocus == sampleNormalAt(state, n + 16, 500, 200)
  IN  [id |-> buildAgentId(i),
       campId |-> Camps[(i % Len(Camps)) + 1],
       energy |-> Mul(cfg.defaults.dailyEnergyNeed, 1200),
       hungerDebt |-> 0,
       emotion |-> [valence |-> cfg.cognition.emotion.baselineValence,
                    arousal |-> cfg.cognition.emotion.baselineArousal,
                    mood |-> cfg.cognition.emotion.baselineValence],
       fehrSchmidt |-> [alpha |-> clamp(alpha.value, 0, 2000),
                        beta |-> clamp(beta.value, 0, 2000),
                        reputationWeight |-> clamp(reputationWeight.value, 0, Scale),
                        normPenalty |-> clamp(normPenalty.value, 0, Scale)],
       reputation |-> 500,
       skillset |-> SampleSkills(state, cfg.agentPopulation.skillProfiles),
       preferences |-> [riskTolerance |-> clamp(riskTolerance.value, 0, Scale),
                        normativeAlignment |-> clamp(normativeAlignment.value, 0, Scale),
                        socialGoalWeight |-> clamp(socialGoalWeight.value, 0, Scale),
                        survivalGoalWeight |-> clamp(survivalGoalWeight.value, 0, Scale),
                        memoryFocus |-> clamp(memoryFocus.value, 0, Scale)],
       semanticMemory |-> [resourceExpectations |-> Scale, normExpectation |-> 500],
       socialMemory |-> <<>>,
       episodicMemory |-> <<>>,
       lastReflectionDay |-> -1,
       lastActions |-> <<>>]

\* initializeAgents(config, rng): agent i (from 0) starts after i * DrawsPerAgent draws
initializeAgents(cfg, state) ==
  The({ [state |-> RngSkip(state, Len(agents) * DrawsPerAgent(cfg)),
         agents |-> agents,
         campMembership |-> [id \in {agents[k].id : k \in 1..Len(agents)} |->
                               agents[CHOOSE k \in 1..Len(agents) : agents[k].id = id].campId]]
        : agents \in {[k \in 1..cfg.agentPopulation.size |->
                         InitAgent(cfg, RngSkip(state, (k - 1) * DrawsPerAgent(cfg)), k - 1)]} })

\* deepCloneAgents: a value copy (records and sequences are values here)
deepCloneAgents(agents) == [k \in 1..Len(agents) |-> agents[k]]

\* ------------------------------------------------------------- tasks.ts
clamp01(value) == Max(0, Min(Scale, value))

skillKey(task) ==
  IF task.category = "foraging" THEN "gathering"
  ELSE IF task.category = "public_good" THEN "crafting"
  ELSE "hunting"

\* agent.skillset[key] ?? 0.5
SkillOf(agent, key) == IF key \in DOMAIN agent.skillset THEN agent.skillset[key] ELSE 500

RECURSIVE SumSkill(_, _, _)
\* agents.reduce((acc, agent) => acc + (agent.skillset[key] ?? 0.5), 0) over the first k
SumSkill(agents, key, k) ==
  IF k = 0 THEN 0 ELSE SumSkill(agents, key, k - 1) + SkillOf(agents[k], key)

\* positions of the agents in [...agents].sort((a, b) => skill(b) - skill(a)): descending
\* by skill, ties in the original order (the sort is stable)
RankBySkill(agents, key) ==
  [k \in 1..Len(agents) |->
     1 + Cardinality({j \in 1..Len(agents) :
                        \/ SkillOf(agents[j], key) > SkillOf(agents[k], key)
                        \/ SkillOf(agents[j], key) = SkillOf(agents[k], key) /\ j < k})]

IdsOf(agents) == {agents[k].id : k \in 1..Len(agents)}

\* the agent of the list with this id
AgentWithId(agents, id) == agents[CHOOSE k \in 1..Len(agents) : agents[k].id = id]

\* the key_contributor_reward case of computeShare
KeyContributorShare(task, agents, totalReward) ==
  The({ [id \in IdsOf(agents) |->
           ((totalReward - bonusPool) \div Len(agents))
           + (IF rank[CHOOSE j \in 1..Len(agents) : agents[j].id = id] <= eliteSize
                THEN bonusPool \div eliteSize ELSE 0)]
        : rank \in {RankBySkill(agents, skillKey(task))},
          bonusPool \in {Mul(totalReward, 250)},
          eliteSize \in {Max(1, Len(agents) \div 3)} })

\* the proportional_skill case of computeShare
ProportionalShare(task, agents, totalReward) ==
  The({ [id \in IdsOf(agents) |->
           Mul(totalReward,
               Div(SkillOf(AgentWithId(agents, id), skillKey(task)),
                   IF total # 0 THEN total ELSE Len(agents) * Scale))]
        : total \in {SumSkill(agents, skillKey(task), Len(agents))} })

\* a division that forgets the collective_penalty case and divides equally
computeShareEqually(task, agents, totalReward) == [id \in IdsOf(agents) |-> totalReward \div Len(agents)]

\* a division that hands every agent the whole reward
computeShareWhole(task, agents, totalReward) == [id \in IdsOf(agents) |-> totalReward]

computeShare(task, agents, totalReward) ==
  IF Len(agents) = 0 \/ totalReward <= 0
    THEN [id \in IdsOf(agents) |-> 0]
  ELSE CASE task.norm = "equal_share" ->
              [id \in IdsOf(agents) |-> totalReward \div Len(agents)]
         [] task.norm = "proportional_skill" -> ProportionalShare(task, agents, totalReward)
         [] task.norm = "key_contributor_reward" -> KeyContributorShare(task, agents, totalReward)
         [] OTHER ->
              [id \in IdsOf(agents) |-> 0]

computeSuccessProbability(task, participants, resourceLevel) ==
  LET key == skillKey(task)
      n == Len(participants)
      avgSkill == SumSkill(participants, key, n) \div (IF n # 0 THEN n ELSE 1)
      participantBonus == 50 * Max(n - task.minParticipants, 0)
      skillBonus == Mul(100, avgSkill - 500)
      resourceBonus == IF resourceLevel > 0 THEN Mul(50, Ln(Scale + resourceLevel)) ELSE -100
  IN  The({ clamp01(p) : p \in {task.successProbability + participantBonus + skillBonus
                                + resourceBonus} })

computeEnergyCost(task, participants) ==
  [id \in IdsOf(participants) |->
     LET agent == AgentWithId(participants, id)
         modifier == IF task.category = "hunting"
                       THEN Scale + Mul(Scale - SkillOf(agent, "hunting"), 200)
                       ELSE Scale
     IN  Mul(task.energyCost, modifier)]

\* [list[a], list[b]] = [list[b], list[a]]
Swap(list, a, b) ==
  [k \in 1..Len(list) |-> IF k = a THEN list[b] ELSE IF k = b THEN list[a] ELSE list[k]]

RECURSIVE shuffleFrom(_, _, _)
\* the Fisher-Yates loop of assignTasks, i (0-based) counting down to 1
shuffleFrom(shuffled, state, i) ==
  IF i <= 0 THEN [state |-> state, shuffled |-> shuffled]
  ELSE The({ The({ shuffleFrom(swapped, d.state, i - 1)
                   : swapped \in {Swap(shuffled, i + 1, WordTimes(d.word, i + 1) + 1)} })
             : d \in {RngNext(state)} })

\* whether the walk over the shuffled order may take the agent for the task
HuntingGate(task, agent) ==
  ~(task.category = "hunting" /\ SkillOf(agent, "hunting") < 300)

\* a walk that also takes agents that are no longer in the pool
SelectParticipantsAgain(task, shuffled, available, need) ==
  The({ SubSeq(eligible, 1, Min(need, Len(eligible)))
        : eligible \in {SelectSeq(shuffled, LAMBDA a : HuntingGate(task, a))} })

\* a walk that does not stop at the number of agents needed
SelectParticipantsAll(task, shuffled, available, need) ==
  SelectSeq(shuffled, LAMBDA a : a.id \in available /\ HuntingGate(task, a))

\* the candidates the walk over the shuffled order takes for a task
SelectParticipants(task, shuffled, available, need) ==
  The({ SubSeq(eligible, 1, Min(need, Len(eligible)))
        : eligible \in {SelectSeq(shuffled,
                                  LAMBDA a : a.id \in available /\ HuntingGate(task, a))} })

\* a skip that forgets to return the agents the walk took
ReleaseNone(available, participants) == available

\* the pool after a task whose walk took fewer than minParticipants agents
ReleaseParticipants(available, participants) == available \cup IdsOf(participants)

\* rewardPerParticipant * (task.yieldPerParticipant ? participants.length : 1), or 0
TotalReward(task, n, success) ==
  IF ~success THEN 0
  ELSE IF Len(task.yieldPerParticipant) > 0
    THEN task.yieldPerParticipant[1] * (IF task.yieldPerParticipant[1] # 0 THEN n ELSE 1)
  ELSE IF Len(task.yieldPerParticipantOnSuccess) > 0
    THEN task.yieldPerParticipantOnSuccess[1]
  ELSE 0

\* the participants the injury draws mark: the k-th participant's draw follows the success
\* draw and k - 1 injury draws
Injuries(cfg, task, participants, success, state) ==
  The({ SelectSeq([k \in 1..Len(participants) |->
                     [id |-> participants[k].id,
                      hit |-> WordBelow(RngDraw(state, k + 1).word, threshold)]],
                  LAMBDA draw : draw.hit)
        : threshold \in {Mul(clamp01(Mul(task.injuryRiskMultiplier, cfg.hazards.base.injury)),
                             IF success THEN 700 ELSE 1100)} })

\* the execution of a task by its participants, from the rng state before the success draw
ExecuteTask(cfg, task, participants, resourceLevel, state) ==
  The({ The({ The({ [state |-> RngSkip(state, Len(participants) + 1),
                     execution |->
                       [assignment |->
                          [taskId |-> task.id,
                           participants |-> [k \in 1..Len(participants) |-> participants[k].id],
                           outcome |-> IF success THEN "success" ELSE "failure",
                           reward |-> totalReward,
                           injuries |-> [k \in 1..Len(injuries) |-> injuries[k].id]],
                        rewards |-> computeShare(task, participants, totalReward),
                        energyCost |-> computeEnergyCost(task, participants),
                        successProbability |-> successProbability]]
                    : totalReward \in {TotalReward(task, Len(participants), success)},
                      injuries \in {Injuries(cfg, task, participants, success, state)} })
              : success \in {WordBelow(RngDraw(state, 1).word, successProbability)} })
        : successProbability \in {computeSuccessProbability(task, participants, resourceLevel)} })

\* what an iteration of tasks.forEach saw before it acted
TraceEntry(task, st, participants) ==
  [taskId |-> task.id, category |-> task.category,
   minParticipants |-> task.minParticipants,
   availableBefore |-> st.available, stateBefore |-> st.state,
   executionsBefore |-> Len(st.executions),
   tentative |-> [k \in 1..Len(participants) |-> participants[k].id]]

\* what the iteration left behind
TraceAfter(st, skipped) ==
  [skipped |-> skipped, availableAfter |-> st.available, stateAfter |-> st.state,
   executionsAfter |-> Len(st.executions)]

\* the iteration once the walk has taken its participants
AssignWalked(cfg, task, resourceByTask, st, participants) ==
  IF Len(participants) < task.minParticipants
    THEN The({ [after EXCEPT !.trace =
                  Append(@, TraceEntry(task, st, participants) @@ TraceAfter(after, TRUE))]
               : after \in {[st EXCEPT !.available =
                               ReleaseParticipants(st.available \ IdsOf(participants),
                                                   participants)]} })
  ELSE The({ The({ [after EXCEPT !.trace =
                      Append(@, TraceEntry(task, st, participants) @@ TraceAfter(after, FALSE))]
                   : after \in {[st EXCEPT !.state = run.state,
                                           !.available = st.available \ IdsOf(participants),
                                           !.executions = Append(@, run.execution)]} })
             : run \in {ExecuteTask(cfg, task, participants,
                                    IF task.category \in DOMAIN resourceByTask
                                      THEN resourceByTask[task.category] ELSE Scale,
                                    st.state)} })

\* one iteration of tasks.forEach in assignTasks; st = [state, available, executions, trace]
AssignOne(cfg, task, shuffled, resourceByTask, st) ==
  The({ IF need < task.minParticipants
          THEN [st EXCEPT !.trace =
                  Append(@, TraceEntry(task, st, <<>>) @@ TraceAfter(st, TRUE))]
        ELSE The({ AssignWalked(cfg, task, resourceByTask, st, participants)
                   : participants \in {SelectParticipants(task, shuffled, st.available, need)} })
        : need \in {Min(task.recommendedParticipants, Cardinality(st.available))} })

RECURSIVE assignLoop(_, _, _, _, _, _)
assignLoop(cfg, tasks, shuffled, resourceByTask, st, k) ==
  IF k > Len(tasks) THEN st
  ELSE The({ assignLoop(cfg, tasks, shuffled, resourceByTask, st2, k + 1)
             : st2 \in {AssignOne(cfg, tasks[k], shuffled, resourceByTask, st)} })

\* tasks.find(id === 'camp_maintenance') ?? config.tasks.find(...): a sequence of 0 or 1 task
FindMaintenance(cfg, tasks) ==
  The({ IF Len(found) > 0 THEN <<found[1]>> ELSE <<>>
        : found \in {SelectSeq(tasks \o cfg.tasks, LAMBDA t : t.id = "camp_maintenance")} })

\* the execution the idle fallback of assignTasks adds
FallbackExecution(maintenance, participants) ==
  [assignment |-> [taskId |-> maintenance.id,
                   participants |-> [k \in 1..Len(participants) |-> participants[k].id],
                   outcome |-> "success",
                   reward |-> 0,
                   injuries |-> <<>>],
   rewards |-> computeShare(maintenance, participants, 0),
   energyCost |-> computeEnergyCost(maintenance, participants),
   successProbability |-> Scale]

\* an assignTasks without the idle fallback
IdleFallbackNever(cfg, tasks, shuffled, st) == st.executions

\* the idle fallback of assignTasks: the executions after it
IdleFallback(cfg, tasks, shuffled, st) ==
  The({ IF st.available # {} /\ Len(maintenance) > 0
          THEN Append(st.executions, FallbackExecution(maintenance[1], participants))
          ELSE st.executions
        : maintenance \in {FindMaintenance(cfg, tasks)},
          participants \in {SelectSeq(shuffled, LAMBDA a : a.id \in st.available)} })

\* resourceByTask of assignTasks
ResourceByTask(resourceAvailability) ==
  [c \in {"foraging", "hunting", "public_good"} |->
     IF c = "hunting"
       THEN resourceAvailability.smallGame + resourceAvailability.largeGame
       ELSE resourceAvailability.plants]

\* TaskPlanner.assignTasks: [state, executions, trace, fallback]
assignTasks(cfg, state, agents, resourceAvailability, tasks) ==
  The({ The({ The({ [state |-> st.state,
                     executions |-> executions,
                     trace |-> st.trace,
                     fallback |-> Len(executions) > Len(st.executions)]
                    : executions \in {IdleFallback(cfg, tasks, sh.shuffled, st)} })
              : st \in {assignLoop(cfg, tasks, sh.shuffled, ResourceByTask(resourceAvailability),
                                   [state |-> sh.state, available |-> IdsOf(sh.shuffled),
                                    executions |-> <<>>, trace |-> <<>>], 1)} })
        : sh \in {shuffleFrom(agents, state, Len(agents) - 1)} })

\* --------------------------------------------------------- cognition.ts
updateEmotion(current, stimulus, decay) ==
  LET valenceDelta == Mul(600, stimulus.goalAlignment) + Mul(300, stimulus.normAlignment)
                      + Mul(100, stimulus.preferenceAlignment)
      arousalDelta == stimulus.arousal
      moodDelta == Mul(500, valenceDelta) + Mul(200, arousalDelta)
  IN  [valence |-> clamp(Mul(current.valence, Scale - decay) + valenceDelta, -1000, 1000),
       arousal |-> clamp(Mul(current.arousal, Scale - decay) + arousalDelta, 0, 1500),
       mood |-> clamp(Mul(current.mood, Scale - (decay \div 2)) + moodDelta, -1000, 1000)]

\* memory.find((entry) => entry.partnerId === partnerId): a sequence of 0 or 1 entry
FindPartner(memory, partnerId) ==
  LET hits == SelectSeq(memory, LAMBDA e : e.partnerId = partnerId)
  IN  IF Len(hits) > 0 THEN <<hits[1]>> ELSE <<>>

\* existing?.[field] ?? 0
FieldOrZero(existing, field) == IF Len(existing) > 0 THEN existing[1][field] ELSE 0

\* an updateSocialMemory whose filter keeps the partner's previous entry
updateSocialMemoryKeepingPartner(memory, partnerId, day, reciprocityDelta, resourcesGiven, resourcesReceived, sentiment, window) ==
  The({ <<[partnerId |-> partnerId,
           lastInteractionDay |-> day,
           reciprocity |-> clamp(Mul(FieldOrZero(existing, "reciprocity"), 600)
                                 + reciprocityDelta, -1000, 1000),
           resourcesGiven |-> FieldOrZero(existing, "resourcesGiven") + resourcesGiven,
           resourcesReceived |-> FieldOrZero(existing, "resourcesReceived") + resourcesReceived,
           sentiment |-> clamp(Mul(FieldOrZero(existing, "sentiment"), 500) + sentiment,
                               -1000, 1000)]>>
        \o SelectSeq(memory, LAMBDA e : day - e.lastInteractionDay <= window)
        : existing \in {FindPartner(memory, partnerId)} })

updateSocialMemory(memory, partnerId, day, reciprocityDelta, resourcesGiven, resourcesReceived, sentiment, window) ==
  The({ <<[partnerId |-> partnerId,
           lastInteractionDay |-> day,
           reciprocity |-> clamp(Mul(FieldOrZero(existing, "reciprocity"), 600)
                                 + reciprocityDelta, -1000, 1000),
           resourcesGiven |-> FieldOrZero(existing, "resourcesGiven") + resourcesGiven,
           resourcesReceived |-> FieldOrZero(existing, "resourcesReceived") + resourcesReceived,
           sentiment |-> clamp(Mul(FieldOrZero(existing, "sentiment"), 500) + sentiment,
                               -1000, 1000)]>>
        \o SelectSeq(memory, LAMBDA e : day - e.lastInteractionDay <= window
                                        /\ e.partnerId # partnerId)
        : existing \in {FindPartner(memory, partnerId)} })

\* CognitionEngine.applyStimulus
applyStimulus(cfg, agent, day, stimulus) ==
  LET horizon == cfg.cognition.episodicWindowDays
      episodicEntry == [day |-> day, summary |-> stimulus.summary,
                        tags |-> stimulus.tags, impact |-> stimulus.impact]
  IN  [agent EXCEPT
         !.emotion = updateEmotion(agent.emotion, stimulus, cfg.cognition.emotion.decay),
         !.episodicMemory = <<episodicEntry>> \o
                            SelectSeq(agent.episodicMemory, LAMBDA e : day - e.day <= horizon)]

\* CognitionEngine.registerInteraction
registerInteraction(cfg, agent, partnerId, day, reciprocityDelta, resourcesGiven, resourcesReceived, sentiment) ==
  [agent EXCEPT !.socialMemory =
     updateSocialMemory(agent.socialMemory, partnerId, day, reciprocityDelta, resourcesGiven,
                        resourcesReceived, sentiment, cfg.cognition.socialMemoryHorizonDays)]

\* a reflect that never waits for the interval
ReflectsAlways(cfg, agent, day) == TRUE

\* whether CognitionEngine.reflect returns a reflection for the agent on this day
Reflects(cfg, agent, day) ==
  ~(day - agent.lastReflectionDay < cfg.cognition.reflectionIntervalDays)

\* the tone of the reflection: the first three episodic entries decide
ReflectionTone(agent) ==
  LET recent == SubSeq(agent.episodicMemory, 1, Min(3, Len(agent.episodicMemory)))
      positive == Len(SelectSeq(recent, LAMBDA e : e.impact > 0))
      negative == Len(SelectSeq(recent, LAMBDA e : e.impact < 0))
  IN  IF positive >= negative THEN "optimistic" ELSE "concerned"

\* CognitionEngine.reflect: the agent afterwards
reflect(cfg, agent, day) ==
  IF Reflects(cfg, agent, day) THEN [agent EXCEPT !.lastReflectionDay = day] ELSE agent

\* ----------------------------------------------------------- network.ts
\* the Map of edges is the sequence of its entries [key, edge] in insertion order
makeKey(source, target) == <<source, target>>

\* Map.prototype.set
MapSet(entries, key, value) ==
  IF \E j \in 1..Len(entries) : entries[j].key = key
    THEN [j \in 1..Len(entries) |->
            IF entries[j].key = key THEN [key |-> key, edge |-> value] ELSE entries[j]]
  ELSE Append(entries, [key |-> key, edge |-> value])

\* Map.prototype.get: a sequence of 0 or 1 value
MapGet(entries, key) ==
  LET hits == SelectSeq(entries, LAMBDA e : e.key = key)
  IN  IF Len(hits) > 0 THEN <<hits[1].edge>> ELSE <<>>

RECURSIVE MapFromEdges(_, _, _)
\* the constructor's initial.edges.forEach(edge => this.edges.set(makeKey(...), {...edge}))
MapFromEdges(entries, edges, k) ==
  IF k > Len(edges) THEN entries
  ELSE The({ MapFromEdges(next, edges, k + 1)
             : next \in {MapSet(entries, makeKey(edges[k].source, edges[k].target), edges[k])} })

\* new SocialNetwork(config, initial): [edges, forgetFactor, campMembership]
SocialNetwork(cfg, initial) ==
  [edges |-> MapFromEdges(<<>>, initial.edges, 1),
   forgetFactor |-> initial.forgetFactor,
   campMembership |-> initial.campMembership]

\* SocialNetwork.initialize
NetworkInitialize(cfg, campMembership) ==
  SocialNetwork(cfg, [edges |-> <<>>, forgetFactor |-> cfg.network.decay,
                      campMembership |-> campMembership])

\* SocialNetwork.toState
toState(network) ==
  [edges |-> [k \in 1..Len(network.edges) |-> network.edges[k].edge],
   forgetFactor |-> network.forgetFactor,
   campMembership |-> network.campMembership]

\* a decay applied twice in one step
DecayedWeightTwice(weight, forgetFactor) == Mul(Mul(weight, Scale - forgetFactor), Scale - forgetFactor)

\* the weight an edge decays to
DecayedWeight(weight, forgetFactor) == Mul(weight, Scale - forgetFactor)

\* an applyDecay that deletes nothing
NeverPruned(newWeight) == FALSE

\* whether applyDecay deletes an edge of this decayed weight
Pruned(newWeight) == newWeight < 10

\* SocialNetwork.applyDecay
applyDecay(network) ==
  LET decayed == [k \in 1..Len(network.edges) |->
                    [network.edges[k] EXCEPT
                       !.edge.weight = DecayedWeight(@, network.forgetFactor)]]
  IN  [network EXCEPT !.edges = SelectSeq(decayed, LAMBDA e : ~Pruned(e.edge.weight))]

\* SocialNetwork.reinforceInteraction
reinforceInteraction(network, source, target, delta) ==
  The({ [network EXCEPT !.edges =
           MapSet(network.edges, makeKey(source, target),
                  IF Len(existing) > 0
                    THEN [existing[1] EXCEPT !.weight = @ + delta]
                    ELSE [source |-> source, target |-> target, weight |-> delta])]
        : existing \in {MapGet(network.edges, makeKey(source, target))} })

\* ------------------------------------------------------- llmAdapters.ts
UpperCase == <<"A", "B", "C", "D", "E", "F", "G", "H", "I", "J", "K", "L", "M",
               "N", "O", "P", "Q", "R", "S", "T", "U", "V", "W", "X", "Y", "Z">>
LowerCase == <<"a", "b", "c", "d", "e", "f", "g", "h", "i", "j", "k", "l", "m",
               "n", "o", "p", "q", "r", "s", "t", "u", "v", "w", "x", "y", "z">>

\* String.prototype.toLowerCase on a sequence of characters
toLowerCase(chars) ==
  [k \in 1..Len(chars) |->
     IF \E j \in 1..26 : UpperCase[j] = chars[k]
       THEN LowerCase[CHOOSE j \in 1..26 : UpperCase[j] = chars[k]]
       ELSE chars[k]]

\* String.prototype.includes on sequences of characters
includes(text, part) ==
  \E start \in 0..(Len(text) - Len(part)) :
    \A k \in 1..Len(part) : text[start + k] = part[k]

Digits == <<"0", "1", "2", "3", "4", "5", "6", "7", "8", "9">>

RECURSIVE DecimalChars(_)
\* the decimal rendering of n >= 0 in a template string
DecimalChars(n) ==
  IF n < 10 THEN <<Digits[n + 1]>> ELSE Append(DecimalChars(n \div 10), Digits[(n % 10) + 1])

\* `allocate ${task.recommendedParticipants} participants to ${task.name}`
HeuristicIntent(task) ==
  <<"a", "l", "l", "o", "c", "a", "t", "e", " ">>
  \o DecimalChars(task.recommendedParticipants)
  \o <<" ", "p", "a", "r", "t", "i", "c", "i", "p", "a", "n", "t", "s", " ", "t", "o", " ">>
  \o Chars[task.name]

\* a heuristic that plans for the first pending task only
heuristicPlanFirst(pendingTasks) ==
  [plans |-> <<[agentId |-> IF Len(pendingTasks) > 0 THEN pendingTasks[1].id ELSE "none",
                intent |-> <<>>,
                rationale |-> "heuristic_allocation"]>>,
   usage |-> [provider |-> "heuristic"]]

heuristicPlan(pendingTasks) ==
  [plans |-> IF Len(pendingTasks) > 0
               THEN [k \in 1..Len(pendingTasks) |->
                       [agentId |-> pendingTasks[k].id,
                        intent |-> HeuristicIntent(pendingTasks[k]),
                        rationale |-> "heuristic_allocation"]]
               ELSE <<[agentId |-> "none",
                       intent |-> <<"r", "e", "s", "t", " ", "a", "n", "d", " ", "m", "o", "n", "i", "t", "o", "r",
                                    " ", "r", "e", "s", "o", "u", "r", "c", "e", "s">>,
                       rationale |-> "idle_day"]>>,
   usage |-> [provider |-> "heuristic"]]

\* what generatePlan of the adapter of this provider returns when the service answered with
\* this text
generatePlan(provider, text) ==
  [plans |-> <<[agentId |-> "group",
                intent |-> IF provider = "openai-responses"
                             THEN SubSeq(text, 1, Min(Len(text), 2000)) ELSE text,
                rationale |-> CASE provider = "openai-responses" -> "llm_plan"
                                [] provider = "bedrock-converse" -> "bedrock_plan"
                                [] OTHER -> "ollama_plan"]>>,
   usage |-> [provider |-> provider]]

\* an adapter that reports itself configured whatever the environment variables say
isEnabledAlways(adapter) == TRUE

\* adapter.isEnabled(): whether the environment variables of the provider are set
isEnabled(adapter) == adapter.enabled

\* the adapters of LLMDecisionCore in their fixed order; each is [provider, enabled,
\* reply]: reply is <<>> when generatePlan throws, else <<intent text>>
RECURSIVE planFrom(_, _, _)
planFrom(adapters, pendingTasks, k) ==
  IF k > Len(adapters) THEN heuristicPlan(pendingTasks)
  ELSE IF ~isEnabled(adapters[k]) THEN planFrom(adapters, pendingTasks, k + 1)
  ELSE IF Len(adapters[k].reply) > 0
    THEN generatePlan(adapters[k].provider, adapters[k].reply[1])
  ELSE planFrom(adapters, pendingTasks, k + 1)

\* LLMDecisionCore.plan
plan(adapters, request) == planFrom(adapters, request.pendingTasks, 1)

\* no LLM environment variable is set: every adapter is disabled
NoAdapters ==
  <<[provider |-> "openai-responses", enabled |-> FALSE, reply |-> <<>>],
    [provider |-> "bedrock-converse", enabled |-> FALSE, reply |-> <<>>],
    [provider |-> "ollama", enabled |-> FALSE, reply |-> <<>>]>>

\* ------------------------------------------- random.ts: orchestrator
\* whether plan item `item` names the task: its lowercased intent includes the id or the name
IntentNames(item, task) ==
  The({ includes(normalized, Chars[task.id]) \/ includes(normalized, Chars[task.name])
        : normalized \in {toLowerCase(item.intent)} })

\* a weight that keeps the last plan item naming the task instead of the first
PlanWeightLast(planResponse, tasks, id) ==
  The({ IF hits = {} THEN Len(planResponse.plans)
        ELSE (CHOOSE index \in hits : \A other \in hits : index >= other) - 1
        : hits \in {{index \in 1..Len(planResponse.plans) :
                       \E k \in 1..Len(tasks) :
                         tasks[k].id = id /\ IntentNames(planResponse.plans[index], tasks[k])}} })

\* the index weights.get(task.id) of orderTasksByPlan: the first plan item that names a task
\* with this id; Len(plans) stands for Number.MAX_SAFE_INTEGER
PlanWeight(planResponse, tasks, id) ==
  The({ IF hits = {} THEN Len(planResponse.plans)
        ELSE (CHOOSE index \in hits : \A other \in hits : index <= other) - 1
        : hits \in {{index \in 1..Len(planResponse.plans) :
                       \E k \in 1..Len(tasks) :
                         tasks[k].id = id /\ IntentNames(planResponse.plans[index], tasks[k])}} })

\* the place of each task after [...tasks].sort((a, b) => aw - bw): ascending by weight,
\* ties in the original order
SortedPosition(w) ==
  [k \in 1..Len(w) |->
     1 + Cardinality({j \in 1..Len(w) : w[j] < w[k] \/ (w[j] = w[k] /\ j < k)})]

orderTasksByPlan(planResponse, tasks) ==
  The({ [pos \in 1..Len(tasks) |-> tasks[CHOOSE k \in 1..Len(tasks) : position[k] = pos]]
        : position \in {SortedPosition([k \in 1..Len(tasks) |->
                                          PlanWeight(planResponse, tasks, tasks[k].id)])} })

\* createPlanRequest
createPlanRequest(cfg, env, agents) ==
  [day |-> env.day,
   season |-> cfg.seasons[(env.seasonIndex % Len(cfg.seasons)) + 1].name,
   environment |-> env,
   agents |-> deepCloneAgents(agents),
   pendingTasks |-> cfg.tasks]

\* the ordered pairs (agent, partner) of the two nested participants.forEach loops
PartnerPairs(ids) ==
  LET n == Len(ids)
      all == [k \in 1..(n * n) |-> <<ids[((k - 1) \div n) + 1], ids[((k - 1) % n) + 1]>>]
  IN  SelectSeq(all, LAMBDA pr : pr[1] # pr[2])

\* execution.rewards[id] ?? 0
RewardOf(execution, id) == IF id \in DOMAIN execution.rewards THEN execution.rewards[id] ELSE 0

\* an applyExecutions that treats every agent as a participant of every execution
PresentEveryone(execution, agents) == [k \in 1..Len(agents) |-> agents[k].id]

\* execution.assignment.participants mapped through agentIndex and filtered
PresentParticipants(execution, agents) ==
  SelectSeq(execution.assignment.participants, LAMBDA id : id \in IdsOf(agents))

\* (share - baseShare) / Math.max(baseShare, 0.001), 0 when baseShare is 0
Fairness(execution, share) ==
  LET n == Len(execution.assignment.participants)
      baseShare == IF n # 0 THEN execution.assignment.reward \div n ELSE 0
  IN  IF baseShare = 0 THEN 0 ELSE Div(share - baseShare, Max(baseShare, 1))

\* share.toFixed(2): the share rounded to hundredths
toFixed2(value) == (value + 5) \div 10

\* the same sum without Math.max(0, ...)
EnergyUnfloored(energy, share, cost, energyNeed) == energy + share - cost - energyNeed

\* the energy after the day's share, cost and need
EnergyAfter(energy, share, cost, energyNeed) == Max(0, energy + share - cost - energyNeed)

\* the reputation after an outcome
ReputationAfter(reputation, success) == clamp(reputation + (IF success THEN 50 ELSE -30), 0, Scale)

RECURSIVE RegisterPartners(_, _, _, _, _, _, _)
\* the inner participants.forEach of applyExecutions, for the memory of one agent
RegisterPartners(cfg, agent, execution, partners, day, fairness, k) ==
  IF k > Len(partners) THEN agent
  ELSE IF partners[k] = agent.id
    THEN RegisterPartners(cfg, agent, execution, partners, day, fairness, k + 1)
  ELSE The({ RegisterPartners(cfg, next, execution, partners, day, fairness, k + 1)
             : next \in {registerInteraction(
                           cfg, agent, partners[k], day,
                           IF execution.assignment.outcome = "success" THEN 200 ELSE -100,
                           RewardOf(execution, agent.id),
                           RewardOf(execution, partners[k]), fairness)} })

\* the energy and hunger debt of the agent after the day's share, cost and need
Fed(cfg, agent, execution) ==
  The({ [agent EXCEPT
           !.energy = energy,
           !.hungerDebt = IF energy < Mul(cfg.defaults.dailyEnergyNeed, 500)
                            THEN @ + (Mul(cfg.defaults.dailyEnergyNeed, 500) - energy)
                            ELSE @]
        : energy \in {EnergyAfter(agent.energy, RewardOf(execution, agent.id),
                                  IF agent.id \in DOMAIN execution.energyCost
                                    THEN execution.energyCost[agent.id] ELSE 0,
                                  cfg.defaults.dailyEnergyNeed)} })

\* execution.assignment.injuries.includes(agent.id)
Injured(execution, id) ==
  \E k \in 1..Len(execution.assignment.injuries) : execution.assignment.injuries[k] = id

\* the injury branch: energy loss and the injury stimulus
Hurt(cfg, agent, execution, day) ==
  IF Injured(execution, agent.id)
    THEN The({ applyStimulus(cfg, weakened, day,
                 [goalAlignment |-> -600, normAlignment |-> -200,
                  preferenceAlignment |-> -300, arousal |-> 600,
                  summary |-> [text |-> "Suffered injury during",
                               taskId |-> execution.assignment.taskId, share |-> 0],
                  tags |-> <<"injury", execution.assignment.taskId>>, impact |-> -700])
               : weakened \in {[agent EXCEPT !.energy = Max(0, @ - 200)]} })
    ELSE agent

\* the stimulus of the task outcome
OutcomeStimulus(cfg, agent, execution, fairness) ==
  LET success == execution.assignment.outcome = "success"
      share == RewardOf(execution, agent.id)
  IN  [goalAlignment |-> IF success THEN 800 ELSE -400,
       normAlignment |-> IF fairness >= 0 - agent.fehrSchmidt.normPenalty THEN 300 ELSE -300,
       preferenceAlignment |-> IF share >= cfg.defaults.dailyEnergyNeed THEN 200 ELSE -100,
       arousal |-> IF success THEN 200 ELSE 400,
       summary |-> [text |-> execution.assignment.outcome,
                    taskId |-> execution.assignment.taskId, share |-> toFixed2(share)],
       tags |-> <<"task", execution.assignment.taskId>>,
       impact |-> IF success THEN 500 ELSE -200]

\* the body of the outer participants.forEach of applyExecutions for one agent
ApplyToParticipant(cfg, agent, execution, partners, day) ==
  The({ The({ The({ The({ The({ [met EXCEPT !.lastActions = <<execution.assignment.taskId>>]
                                : met \in {RegisterPartners(cfg, reputed, execution, partners,
                                                            day, fairness, 1)} })
                          : reputed \in {[felt EXCEPT !.reputation =
                                            ReputationAfter(@, execution.assignment.outcome
                                                               = "success")]} })
                    : felt \in {applyStimulus(cfg, hurt, day,
                                              OutcomeStimulus(cfg, hurt, execution, fairness))} })
              : hurt \in {Hurt(cfg, fed, execution, day)} })
        : fed \in {Fed(cfg, agent, execution)},
          fairness \in {Fairness(execution, RewardOf(execution, agent.id))} })

\* executions.forEach of applyExecutions, on the agents
RECURSIVE ApplyToAgents(_, _, _, _, _)
ApplyToAgents(cfg, agents, executions, day, e) ==
  IF e > Len(executions) THEN agents
  ELSE The({ The({ ApplyToAgents(cfg, next, executions, day, e + 1)
                   : next \in {[k \in 1..Len(agents) |->
                                  IF \E j \in 1..Len(partners) : partners[j] = agents[k].id
                                    THEN ApplyToParticipant(cfg, agents[k], executions[e],
                                                            partners, day)
                                    ELSE agents[k]]} })
             : partners \in {PresentParticipants(executions[e], agents)} })

\* the reinforceInteraction calls of one execution, in call order: [source, target, delta]
ExecutionInteractions(execution, agents) ==
  The({ [k \in 1..Len(pairs) |->
           [source |-> pairs[k][1], target |-> pairs[k][2],
            delta |-> 200 + Mul(RewardOf(execution, pairs[k][1]), 50)]]
        : pairs \in {PartnerPairs(PresentParticipants(execution, agents))} })

RECURSIVE ReinforceAll(_, _, _)
ReinforceAll(network, calls, k) ==
  IF k > Len(calls) THEN network
  ELSE The({ ReinforceAll(next, calls, k + 1)
             : next \in {reinforceInteraction(network, calls[k].source, calls[k].target,
                                              calls[k].delta)} })

RECURSIVE ApplyToNetwork(_, _, _, _)
\* executions.forEach of applyExecutions, on the network
ApplyToNetwork(network, agents, executions, e) ==
  IF e > Len(executions) THEN network
  ELSE The({ The({ ApplyToNetwork(next, agents, executions, e + 1)
                   : next \in {ReinforceAll(network, calls, 1)} })
             : calls \in {ExecutionInteractions(executions[e], agents)} })

\* the entries this.logger.record keeps during applyExecutions
StepLogs(cfg, agents, executions, reflecting, day) ==
  IF ~cfg.logging.eventLog THEN <<>>
  ELSE SelectSeq([e \in 1..Len(executions) |->
                    [day |-> day, type |-> "task", agentId |-> <<>>,
                     summary |-> <<executions[e].assignment.taskId,
                                   executions[e].assignment.outcome>>,
                     logged |-> cfg.logging.taskLog
                                /\ Len(PresentParticipants(executions[e], agents)) > 0]],
                 LAMBDA l : l.logged)
       \o SelectSeq([k \in 1..Len(reflecting) |->
                       [day |-> day, type |-> "reflection", agentId |-> <<reflecting[k].id>>,
                        summary |-> <<ReflectionTone(reflecting[k])>>,
                        logged |-> Reflects(cfg, reflecting[k], day)]],
                    LAMBDA l : l.logged)

\* CooperationSimulation.applyExecutions: [agents, network, logs]
applyExecutions(cfg, agents, network, executions, day) ==
  The({ The({ [agents |-> [k \in 1..Len(worked) |-> reflect(cfg, worked[k], day)],
               network |-> ApplyToNetwork(decayed, agents, executions, 1),
               logs |-> StepLogs(cfg, agents, executions, worked, day)]
              : worked \in {ApplyToAgents(cfg, agents, executions, day, 1)} })
        : decayed \in {applyDecay(network)} })

\* an initialize that drops its seed argument: the generator always starts from the clock
initializeFromClock(cfg, seedArg, now) ==
  The({ [environment |-> EnvInitialize(cfg),
         agents |-> population.agents,
         network |-> NetworkInitialize(cfg, population.campMembership),
         rng |-> population.state]
        : population \in {initializeAgents(cfg, SeededRandom(now))} })

\* CooperationSimulation.initialize(config, seed = Date.now()): the members environment,
\* agents, network and rng; seedArg is <<>> when the caller passes no seed, now is what
\* Date.now() >>> 0 gives at the call
initialize(cfg, seedArg, now) ==
  The({ [environment |-> EnvInitialize(cfg),
         agents |-> population.agents,
         network |-> NetworkInitialize(cfg, population.campMembership),
         rng |-> population.state]
        : population \in {initializeAgents(
                            cfg, SeededRandom(IF Len(seedArg) > 0 THEN seedArg[1] ELSE now))} })

\* CooperationSimulation.fromState
fromState(cfg, state) ==
  [environment |-> state.environment,
   agents |-> deepCloneAgents(state.agents),
   network |-> SocialNetwork(cfg, state.network),
   rng |-> SeededRandom(state.rngSeed)]

\* the SimulationState built from the members and the seed drawn last
SimulationState(environment, agents, network, nextSeed) ==
  [environment |-> environment,
   agents |-> deepCloneAgents(agents),
   network |-> toState(network),
   rngSeed |-> nextSeed,
   environmentRngSeed |-> nextSeed]

\* CooperationSimulation.serialize: [sim |-> the simulation afterwards, state |-> the value
\* returned]
serialize(sim) ==
  The({ [sim |-> [sim EXCEPT !.rng = draw.state],
         state |-> SimulationState(sim.environment, sim.agents, sim.network,
                                   NextSeed(draw.word))]
        : draw \in {RngNext(sim.rng)} })

\* the tail of stepDay: from the plan-ordered tasks and the environment tick on
StepOutcome(cfg, sim, orderedTasks, envTick) ==
  The({ The({ The({ [sim |-> [environment |-> envTick.env,
                              agents |-> applied.agents,
                              network |-> applied.network,
                              rng |-> draw.state],
                     result |-> [newState |-> SimulationState(envTick.env, applied.agents,
                                                              applied.network,
                                                              NextSeed(draw.word)),
                                 assignments |-> [e \in 1..Len(assigned.executions) |->
                                                    assigned.executions[e].assignment],
                                 logs |-> applied.logs],
                     executions |-> assigned.executions,
                     orderedTasks |-> orderedTasks,
                     fallback |-> assigned.fallback,
                     trace |-> assigned.trace]
                    : draw \in {RngNext(assigned.state)} })
              : applied \in {applyExecutions(cfg, sim.agents, sim.network, assigned.executions,
                                             envTick.env.day)} })
        : assigned \in {assignTasks(cfg, envTick.state, sim.agents, envTick.env.resourceLevel,
                                    orderedTasks)} })

\* CooperationSimulation.stepDay: [sim |-> the simulation afterwards, result |-> the step
\* result, executions, orderedTasks, fallback, trace |-> what assignTasks did]
stepDay(cfg, adapters, sim) ==
  The({ StepOutcome(cfg, sim, orderedTasks, envTick)
        : orderedTasks \in {orderTasksByPlan(
                              plan(adapters, createPlanRequest(cfg, sim.environment, sim.agents)),
                              cfg.tasks)},
          envTick \in {tick(cfg, sim.environment, sim.rng)} })

\* ------------------------------------------------------ scenarios run
\* a band that only forages, two at a time: the agent left over has no task and no fallback
ForageOnlyConfig == [BaseConfig EXCEPT !.name = "forage_only", !.tasks = <<TaskForage>>]

\* a scenario whose camp maintenance is itself a hunting task
HuntingCampConfig ==
  [BaseConfig EXCEPT !.name = "hunting_camp",
                     !.tasks = <<TaskHunt, [TaskMaintenance EXCEPT !.category = "hunting"]>>]

\* a foraging band whose seasons last one day: the second tick wraps around to spring; its
\* winter lowers the injury rate below none, raises hypothermia above certainty and takes
\* large game away instead of adding some
ShortSeasonConfig ==
  [ForageOnlyConfig EXCEPT
     !.name = "short_seasons",
     !.timeline.seasonLengthDays = 1,
     !.resources.seasonalLargeGameBonus = [n \in {"winter"} |-> -2000],
     !.hazards.seasonal = [n \in {"winter"} |->
                             [k \in {"injury", "hypothermia"} |->
                                IF k = "injury" THEN -200 ELSE 980]]]

Configs == {BaseConfig, ForageOnlyConfig, HuntingCampConfig, ShortSeasonConfig}

\* seeds whose populations have three, two and one agent at or above the hunting gate
Seeds == {1, 0, 16}

\* the two simulations observed: A is the one serialize() is called on, B is a second
\* simulation, first built by initialize and later possibly rebuilt by fromState
Runs == {"A", "B"}

\* Date.now() >>> 0 at the two initialize calls
DateNow == [r \in Runs |-> IF r = "A" THEN 1730000000 ELSE 1730000777]

VARIABLES
  config,         \* the ScenarioConfig both simulations were built with
  seed,           \* the seed passed to initialize
  sim,            \* sim[r]: the members of simulation r (environment, agents, network, rng)
  history,        \* history[r]: the newState of every stepDay() of r since it was built
  lastStep,       \* lastStep[r]: <<>> or <<what the last stepDay() of r did>>
  snapshot,       \* <<>> or <<the last value serialize() returned on A, with A's step count>>
  serializeCalls, \* the number of serialize() calls made on A
  restoredFrom,   \* <<>> when B was built by initialize, <<n>> when by fromState of a
                  \* snapshot taken after n steps of A
  llm,            \* the stepDay() of A in flight, followed adapter by adapter: pc is "idle",
                  \* "loop" (inside the for of LLMDecisionCore.plan) or "returned"
  direct          \* <<>> or <<the arguments and the result of the last direct call of
                  \* orderTasksByPlan or TaskPlanner.assignTasks>>

vars == <<config, seed, sim, history, lastStep, snapshot, serializeCalls, restoredFrom, llm, direct>>

Init ==
  /\ config \in Configs
  /\ seed \in Seeds
  /\ sim = [r \in Runs |-> initialize(config, <<seed>>, DateNow[r])]
  /\ history = [r \in Runs |-> <<>>]
  /\ lastStep = [r \in Runs |-> <<>>]
  /\ snapshot = <<>>
  /\ serializeCalls = 0
  /\ restoredFrom = <<>>
  /\ llm = [pc |-> "idle"]
  /\ direct = <<>>

\* await sim.stepDay() on simulation r, no LLM adapter enabled
StepDay(r) ==
  /\ sim[r].environment.day < MaxDay
  /\ \E step \in {stepDay(config, NoAdapters, sim[r])} :
       /\ sim' = [sim EXCEPT ![r] = step.sim]
       /\ history' = [history EXCEPT ![r] = Append(@, step.result.newState)]
       /\ lastStep' = [lastStep EXCEPT ![r] =
                         <<[day |-> step.result.newState.environment.day,
                            before |-> sim[r],
                            assignments |-> step.result.assignments,
                            executions |-> step.executions,
                            orderedTasks |-> step.orderedTasks,
                            fallback |-> step.fallback,
                            trace |-> step.trace,
                            logs |-> step.result.logs]>>]
  /\ UNCHANGED <<config, seed, snapshot, serializeCalls, restoredFrom, llm, direct>>

\* sim.serialize() on simulation A
Serialize ==
  /\ serializeCalls < MaxSerialize
  /\ \E call \in {serialize(sim["A"])} :
       /\ sim' = [sim EXCEPT !["A"] = call.sim]
       /\ snapshot' = <<[state |-> call.state, steps |-> Len(history["A"])]>>
  /\ serializeCalls' = serializeCalls + 1
  /\ UNCHANGED <<config, seed, history, lastStep, restoredFrom, llm, direct>>

\* B = CooperationSimulation.fromState(config, snapshot)
FromState ==
  /\ Len(snapshot) > 0
  /\ restoredFrom = <<>>
  /\ sim' = [sim EXCEPT !["B"] = fromState(config, snapshot[1].state)]
  /\ history' = [history EXCEPT !["B"] = <<>>]
  /\ lastStep' = [lastStep EXCEPT !["B"] = <<>>]
  /\ restoredFrom' = <<snapshot[1].steps>>
  /\ UNCHANGED <<config, seed, snapshot, serializeCalls, llm, direct>>

Next ==
  \/ \E r \in Runs : StepDay(r)
  \/ Serialize
  \/ FromState

Spec == Init /\ [][Next]_vars

\* --------------------------------------- stepDay(), adapter by adapter
\* an entry of plan that draws a value from the generator of A, as serialize() does
PlanBeginDrawing ==
  /\ llm.pc = "idle"
  /\ sim["A"].environment.day < MaxDay
  /\ \E enabled \in SUBSET {1, 2, 3}, pending \in 0..Len(config.tasks) :
       llm' = [pc |-> "loop",
               caller |-> IF pending = Len(config.tasks) THEN "stepDay" ELSE "direct",
               before |-> sim["A"],
               request |-> [createPlanRequest(config, sim["A"].environment, sim["A"].agents)
                              EXCEPT !.pendingTasks = SubSeq(config.tasks, 1, pending)],
               adapters |-> [k \in 1..3 |-> [provider |-> NoAdapters[k].provider,
                                             enabled |-> k \in enabled,
                                             reply |-> <<>>]],
               next |-> 1,
               calls |-> <<>>,
               response |-> <<>>]
  /\ sim' = [sim EXCEPT !["A"].rng = RngNext(@).state]
  /\ UNCHANGED <<config, seed, history, lastStep, snapshot, serializeCalls, restoredFrom, direct>>

\* LLMDecisionCore.plan is entered: by stepDay() of A with the request createPlanRequest
\* built, or by a direct call with a request that leaves some or all of the tasks out;
\* which adapters are enabled is read from the environment variables
PlanBegin ==
  /\ llm.pc = "idle"
  /\ sim["A"].environment.day < MaxDay
  /\ \E enabled \in SUBSET {1, 2, 3}, pending \in 0..Len(config.tasks) :
       llm' = [pc |-> "loop",
               caller |-> IF pending = Len(config.tasks) THEN "stepDay" ELSE "direct",
               before |-> sim["A"],
               request |-> [createPlanRequest(config, sim["A"].environment, sim["A"].agents)
                              EXCEPT !.pendingTasks = SubSeq(config.tasks, 1, pending)],
               adapters |-> [k \in 1..3 |-> [provider |-> NoAdapters[k].provider,
                                             enabled |-> k \in enabled,
                                             reply |-> <<>>]],
               next |-> 1,
               calls |-> <<>>,
               response |-> <<>>]
  /\ UNCHANGED <<config, seed, sim, history, lastStep, snapshot, serializeCalls, restoredFrom, direct>>

\* one iteration of the for loop of plan: a disabled adapter is passed over; an enabled one
\* has generatePlan called, which throws or returns a response; the service answers with a
\* text naming the forage task by its id, or one naming the camp maintenance and the hunt by
\* their names
PlanAdapter ==
  /\ llm.pc = "loop"
  /\ llm.next <= Len(llm.adapters)
  /\ IF ~isEnabled(llm.adapters[llm.next])
       THEN llm' = [llm EXCEPT !.next = @ + 1]
       ELSE \E reply \in {<<>>, <<Chars["forage"]>>,
                           <<Chars["Camp maintenance"] \o <<" ">> \o Chars["Hunt"]>>} :
              IF Len(reply) > 0
                THEN llm' = [llm EXCEPT
                               !.pc = "returned",
                               !.adapters[llm.next].reply = reply,
                               !.calls = Append(@, [provider |-> llm.adapters[llm.next].provider,
                                                    index |-> llm.next, failed |-> FALSE]),
                               !.response = <<generatePlan(llm.adapters[llm.next].provider,
                                                           reply[1])>>]
                ELSE llm' = [llm EXCEPT
                               !.next = @ + 1,
                               !.calls = Append(@, [provider |-> llm.adapters[llm.next].provider,
                                                    index |-> llm.next, failed |-> TRUE])]
  /\ UNCHANGED <<config, seed, sim, history, lastStep, snapshot, serializeCalls, restoredFrom, direct>>

\* the loop of plan ended without a response: plan returns heuristicPlan(request)
PlanHeuristic ==
  /\ llm.pc = "loop"
  /\ llm.next > Len(llm.adapters)
  /\ llm' = [llm EXCEPT !.pc = "returned", !.response = <<heuristicPlan(llm.request.pendingTasks)>>]
  /\ UNCHANGED <<config, seed, sim, history, lastStep, snapshot, serializeCalls, restoredFrom, direct>>

\* a direct call of plan has its response
PlanReturn ==
  /\ llm.pc = "returned"
  /\ llm.caller = "direct"
  /\ llm' = [pc |-> "idle"]
  /\ UNCHANGED <<config, seed, sim, history, lastStep, snapshot, serializeCalls, restoredFrom, direct>>

\* stepDay() of A after llm.plan returned: orderTasksByPlan to the new state
StepAfterPlan ==
  /\ llm.pc = "returned"
  /\ llm.caller = "stepDay"
  /\ \E step \in {StepOutcome(config, sim["A"],
                              orderTasksByPlan(llm.response[1], config.tasks),
                              tick(config, sim["A"].environment, sim["A"].rng))} :
       /\ sim' = [sim EXCEPT !["A"] = step.sim]
       /\ history' = [history EXCEPT !["A"] = Append(@, step.result.newState)]
       /\ lastStep' = [lastStep EXCEPT !["A"] =
                         <<[day |-> step.result.newState.environment.day,
                            before |-> sim["A"],
                            assignments |-> step.result.assignments,
                            executions |-> step.executions,
                            orderedTasks |-> step.orderedTasks,
                            fallback |-> step.fallback,
                            trace |-> step.trace,
                            logs |-> step.result.logs]>>]
  /\ llm' = [pc |-> "idle"]
  /\ UNCHANGED <<config, seed, snapshot, serializeCalls, restoredFrom, direct>>

NextLlm ==
  \/ PlanBegin
  \/ PlanAdapter
  \/ PlanHeuristic
  \/ PlanReturn
  \/ StepAfterPlan

\* the simulation A stepped with the LLM services answering, failing or not configured
SpecLlm == Init /\ [][NextLlm]_vars

\* ------------------------------------------------- direct calls
\* planner.assignTasks(rng, agents, resourceAvailability, taskSequence) called on the agents
\* and resources of A with a task sequence of the caller's choice: up to two different
\* tasks out of the scenario's and the night watch
ApplyAssignTasks ==
  /\ direct = <<>>
  /\ \E first, second \in {<<>>, <<TaskHunt>>, <<TaskForage>>, <<TaskMaintenance>>, <<TaskWatch>>},
        drawsBefore \in 0..MaxDrawsBefore :
       /\ first # second
       /\ first = <<>> => second = <<>>
       /\ \E result \in {assignTasks(config, RngSkip(sim["A"].rng, drawsBefore),
                                      sim["A"].agents, sim["A"].environment.resourceLevel,
                                      first \o second)} :
            /\ direct' = <<[op |-> "assignTasks",
                            tasks |-> first \o second,
                            agents |-> sim["A"].agents,
                            result |-> result]>>
            /\ sim' = [sim EXCEPT !["A"].rng = result.state]
  /\ UNCHANGED <<config, seed, history, lastStep, snapshot, serializeCalls, restoredFrom, llm>>

\* orderTasksByPlan(plan, config.tasks) called with a plan of up to MaxPlanItems items, each
\* with one of four intents: one naming the forage task, one naming the hunt, one naming the
\* camp maintenance by its id and the hunt, and one naming the camp maintenance by its
\* capitalised name only
ApplyOrderTasks ==
  /\ direct = <<>>
  /\ \E n \in 0..MaxPlanItems :
     \E intents \in [1..n -> {Chars["forage"],
                              Chars["Hunt"],
                              Chars["camp_maintenance"] \o <<" ">> \o Chars["Hunt"],
                              Chars["Camp maintenance"]}] :
       \E planResponse \in {[plans |-> [k \in 1..n |-> [agentId |-> "group",
                                                       intent |-> intents[k],
                                                       rationale |-> "llm_plan"]],
                              usage |-> [provider |-> "openai-responses"]]} :
         direct' = <<[op |-> "orderTasksByPlan",
                      plan |-> planResponse,
                      tasks |-> config.tasks,
                      result |-> orderTasksByPlan(planResponse, config.tasks)]>>
  /\ UNCHANGED <<config, seed, sim, history, lastStep, snapshot, serializeCalls, restoredFrom, llm>>

\* CooperationSimulation.initialize(sized, seed) called directly, on the scenario with its
\* agentPopulation.size set to any size up to MaxAgents
ApplyInitialize ==
  /\ direct = <<>>
  /\ \E size \in 1..MaxAgents :
     \E sized \in {[config EXCEPT !.agentPopulation.size = size]} :
       direct' = <<[op |-> "initialize",
                    config |-> sized,
                    result |-> initialize(sized, <<seed>>, DateNow["A"])]>>
  /\ UNCHANGED <<config, seed, sim, history, lastStep, snapshot, serializeCalls, restoredFrom, llm>>

\* scenarioLoader.ts: validSeasons
validSeasons == {"spring", "summer", "autumn", "winter"}

\* assertScenario(config): <<>> when it returns, the message of the Error when it throws
assertScenario(cfg) ==
  IF cfg.name = "" \/ cfg.displayName = ""
    THEN <<"Scenario config must include name and displayName">>
  ELSE IF Len(cfg.timeline.dailyMicroInteractions) = 0
    THEN <<"Scenario must specify micro interactions for each day">>
  ELSE IF \E k \in 1..Len(cfg.seasons) : cfg.seasons[k].name \notin validSeasons
    THEN <<"Invalid season">>
  ELSE IF Len(cfg.tasks) = 0
    THEN <<"Scenario must define at least one task">>
  ELSE <<>>

\* getScenarioConfig(name) on the registry of the scenarios, each of which passed
\* assertScenario when the module was loaded: <<config>>, or <<>> when it throws
getScenarioConfig(name) ==
  IF \E c \in Configs : c.name = name /\ assertScenario(c) = <<>>
    THEN <<CHOOSE c \in Configs : c.name = name>>
    ELSE <<>>

\* { ...base, ...overrides }
Spread(base, overrides) ==
  [f \in DOMAIN base \cup DOMAIN overrides |->
     IF f \in DOMAIN overrides THEN overrides[f] ELSE base[f]]

\* overrides.member ?? {}
OrEmpty(overrides, member) == IF member \in DOMAIN overrides THEN overrides[member] ELSE <<>>

\* mergeScenarioConfig(name, overrides): <<merged>>, or <<>> when getScenarioConfig throws
mergeScenarioConfig(name, overrides) ==
  IF getScenarioConfig(name) = <<>> THEN <<>>
  ELSE LET base == getScenarioConfig(name)[1]
           top == Spread(base, overrides)
           nested == {"timeline", "resources", "cognition", "network", "logging", "defaults"}
       IN  <<[f \in DOMAIN top |->
                IF f \in nested THEN Spread(base[f], OrEmpty(overrides, f))
                ELSE IF f = "hazards"
                  THEN Spread(Spread(base.hazards, OrEmpty(overrides, f)),
                              [seasonal |-> Spread(base.hazards.seasonal,
                                                   OrEmpty(OrEmpty(overrides, f), "seasonal"))])
                ELSE IF f = "agentPopulation" /\ f \in DOMAIN overrides
                  THEN [g \in DOMAIN Spread(base[f], overrides[f]) |->
                          IF g = "socialPreferences"
                            THEN Spread(base[f][g], OrEmpty(overrides[f], g))
                            ELSE Spread(base[f], overrides[f])[g]]
                ELSE top[f]]>>

\* the overrides passed to mergeScenarioConfig: none, ones that keep the scenario well formed
\* and ones that take a required part away
Overrides ==
  {<<>>,
   [tasks |-> <<TaskForage>>],
   [agentPopulation |-> [size |-> 2]],
   [tasks |-> <<>>],
   [name |-> ""],
   [displayName |-> ""],
   [timeline |-> [dailyMicroInteractions |-> <<>>]],
   [seasons |-> <<[name |-> "monsoon", resourceMultiplier |-> 1000, climateNoise |-> 0]>>]}

\* config = mergeScenarioConfig(name, overrides) called with the name of the scenario or with
\* a name the registry does not hold; when it returns, the caller builds a simulation with
\* CooperationSimulation.initialize(config, seed)
ApplyMergeScenario ==
  /\ direct = <<>>
  /\ \E name \in {config.name, "unknown"}, overrides \in Overrides :
     \E merged \in {mergeScenarioConfig(name, overrides)} :
       direct' = <<[op |-> "mergeScenarioConfig",
                    name |-> name,
                    overrides |-> overrides,
                    result |-> merged,
                    simulation |-> IF merged = <<>> THEN <<>>
                                   ELSE <<initialize(merged[1], <<seed>>, DateNow["A"])>>]>>
  /\ UNCHANGED <<config, seed, sim, history, lastStep, snapshot, serializeCalls, restoredFrom, llm>>

\* the gathering skills of the participants of a direct call of computeShare: the least and
\* the greatest value clamp(raw, 0, 1.2) leaves, and one between
ShareSkills == {0, 400, 1200}

\* computeShare(task, participants, totalReward) called for a foraging task of one of the
\* distributing norms, on the first agents of A with gathering skills out of ShareSkills,
\* for a failed task (0) and for the hunt's reward
ApplyComputeShare ==
  /\ direct = <<>>
  /\ \E norm \in {"equal_share", "proportional_skill", "key_contributor_reward"},
        count \in 1..Len(sim["A"].agents),
        skills \in [1..Len(sim["A"].agents) -> ShareSkills],
        totalReward \in {0, 9000} :
       LET task == [TaskForage EXCEPT !.norm = norm]
           participants ==
             [k \in 1..count |->
                [sim["A"].agents[k] EXCEPT
                   !.skillset = [key \in DOMAIN sim["A"].agents[k].skillset |->
                                   IF key = "gathering" THEN skills[k]
                                   ELSE sim["A"].agents[k].skillset[key]]]]
       IN  /\ \A k \in (count + 1)..Len(sim["A"].agents) : skills[k] = 0
           /\ direct' = <<[op |-> "computeShare",
                           task |-> task,
                           participants |-> participants,
                           totalReward |-> totalReward,
                           result |-> computeShare(task, participants, totalReward)]>>
  /\ UNCHANGED <<config, seed, sim, history, lastStep, snapshot, serializeCalls, restoredFrom, llm>>

\* the task lists of a scenario: one to three different tasks out of hunt, forage and
\* camp maintenance, in any order
TaskLists ==
  {<<>>} \cup {<<a>> : a \in {TaskHunt, TaskForage, TaskMaintenance}}
  \cup {t \in {<<a, b>> : a, b \in {TaskHunt, TaskForage, TaskMaintenance}} : t[1] # t[2]}
  \cup {t \in {<<a, b, c>> : a, b, c \in {TaskHunt, TaskForage, TaskMaintenance}} :
          t[1] # t[2] /\ t[1] # t[3] /\ t[2] # t[3]}

\* the first lines of stepDay with no adapter enabled, for a scenario with these tasks:
\* plan = heuristicPlan(request) for pendingTasks = config.tasks, then
\* orderTasksByPlan(plan, config.tasks)
ApplyHeuristicOrder ==
  /\ direct = <<>>
  /\ \E tasks \in TaskLists :
       direct' = <<[op |-> "heuristicOrder",
                    tasks |-> tasks,
                    plan |-> plan(NoAdapters, [pendingTasks |-> tasks]),
                    result |-> orderTasksByPlan(plan(NoAdapters, [pendingTasks |-> tasks]),
                                                tasks)]>>
  /\ UNCHANGED <<config, seed, sim, history, lastStep, snapshot, serializeCalls, restoredFrom, llm>>

NextFun ==
  \/ ApplyHeuristicOrder
  \/ ApplyAssignTasks
  \/ ApplyOrderTasks
  \/ ApplyInitialize
  \/ ApplyMergeScenario
  \/ ApplyComputeShare

\* the functions of the simulation called directly on the members of A as initialize built
\* them
SpecFun == Init /\ [][NextFun]_vars

\* ------------------------------------- the stored runs (hadzaRuns and its tables)
\* JSON.stringify of a SimulationState or of its edges: a text, kept as the value it encodes
JSONStringify(value) == [json |-> value]

\* JSON.parse of such a text
JSONParse(text) == text.json

\* the statuses a row of hadzaRuns can have
RunStatuses == {"running", "paused", "completed"}

\* an advanceSimulationRun that steps whatever the status
StepsRunAlways(run) == TRUE

\* advanceSimulationRun: whether it goes on to step the run it loaded
StepsRun(run) == run.status = "running"

\* the row startSimulationRun inserts into hadzaRuns
startSimulationRun(cfg, seedArg, now) ==
  The({ [scenario |-> cfg.name,
         status |-> "running",
         currentDay |-> state.environment.day,
         state |-> JSONStringify(state)]
        : state \in {serialize(initialize(cfg, seedArg, now)).state} })

\* a persistStep that patches the state of the run and not its currentDay
persistStepKeepingDay(db, args) ==
  [db EXCEPT
     !.run = [@ EXCEPT !.state = args.state],
     !.hadzaDailyMetrics = Append(@, [runId |-> 1, day |-> args.day]),
     !.hadzaNetworkSnapshots = Append(@, [runId |-> 1, day |-> args.day, edges |-> args.edges])]

\* persistStep(args) on the tables: the patch of the run, one row of hadzaDailyMetrics, one
\* row of hadzaEvents per log and one row of hadzaNetworkSnapshots (the metric and
\* statistics columns are left out)
persistStep(db, args) ==
  [db EXCEPT
     !.run = [@ EXCEPT !.state = args.state, !.currentDay = args.day],
     !.hadzaDailyMetrics = Append(@, [runId |-> 1, day |-> args.day]),
     !.hadzaEvents = @ \o [k \in 1..Len(args.logs) |->
                             [runId |-> 1, day |-> args.logs[k].day,
                              agentId |-> args.logs[k].agentId,
                              eventType |-> args.logs[k].type,
                              summary |-> args.logs[k].summary]],
     !.hadzaNetworkSnapshots = Append(@, [runId |-> 1, day |-> args.day, edges |-> args.edges])]

\* the arguments advanceSimulationRun passes to persistStep for the run it loaded
StepArgs(cfg, run) ==
  The({ [state |-> JSONStringify(step.result.newState),
         day |-> step.result.newState.environment.day,
         logs |-> step.result.logs,
         edges |-> JSONStringify(step.result.newState.network.edges)]
        : step \in {stepDay(cfg, NoAdapters, fromState(cfg, JSONParse(run.state)))} })

\* the tables of the database with the one run in them, the advanceSimulationRun under way
\* (the run it loaded) and what the last finished one loaded, found, left and returned
Tables == direct[1].db

\* startSimulationRun({scenario, seed})
StartSimulationRun ==
  /\ direct = <<>>
  /\ getScenarioConfig(config.name) # <<>>
  /\ direct' = <<[op |-> "runs",
                  db |-> [run |-> startSimulationRun(getScenarioConfig(config.name)[1],
                                                     <<seed>>, DateNow["A"]),
                          hadzaDailyMetrics |-> <<>>,
                          hadzaEvents |-> <<>>,
                          hadzaNetworkSnapshots |-> <<>>],
                  loaded |-> <<>>,
                  last |-> <<>>]>>
  /\ UNCHANGED <<config, seed, sim, history, lastStep, snapshot, serializeCalls, restoredFrom, llm>>

\* a caller pauses, completes or resumes the run
PatchStatus ==
  /\ direct # <<>>
  /\ \E status \in RunStatuses \ {Tables.run.status} :
       direct' = <<[direct[1] EXCEPT !.db = [@ EXCEPT !.run = [@ EXCEPT !.status = status]]]>>
  /\ UNCHANGED <<config, seed, sim, history, lastStep, snapshot, serializeCalls, restoredFrom, llm>>

\* advanceSimulationRun up to the end of its stepDay: the run is loaded; unless it is to be
\* stepped the action returns its currentDay and no metrics
AdvanceLoad ==
  /\ direct # <<>>
  /\ direct[1].loaded = <<>>
  /\ Tables.run.currentDay < MaxDay
  /\ direct' = IF StepsRun(Tables.run)
                 THEN <<[direct[1] EXCEPT !.loaded = <<Tables.run>>]>>
                 ELSE <<[direct[1] EXCEPT
                           !.last = <<[loaded |-> Tables.run, found |-> Tables, left |-> Tables,
                                       day |-> Tables.run.currentDay, metrics |-> FALSE]>>]>>
  /\ UNCHANGED <<config, seed, sim, history, lastStep, snapshot, serializeCalls, restoredFrom, llm>>

\* advanceSimulationRun from persistStep on: the step of the loaded run is written
AdvancePersist ==
  /\ direct # <<>>
  /\ direct[1].loaded # <<>>
  /\ \E args \in {StepArgs(getScenarioConfig(direct[1].loaded[1].scenario)[1],
                           direct[1].loaded[1])} :
     \E after \in {persistStep(Tables, args)} :
       direct' = <<[direct[1] EXCEPT
                      !.db = after,
                      !.loaded = <<>>,
                      !.last = <<[loaded |-> direct[1].loaded[1], found |-> Tables,
                                  left |-> after, day |-> args.day, metrics |-> TRUE]>>]>>
  /\ UNCHANGED <<config, seed, sim, history, lastStep, snapshot, serializeCalls, restoredFrom, llm>>

NextRuns ==
  \/ StartSimulationRun
  \/ PatchStatus
  \/ AdvanceLoad
  \/ AdvancePersist

\* a stored run started, advanced day by day and paused, completed or resumed by callers
SpecRuns == Init /\ [][NextRuns]_vars

\* ------------------------------------- advanceSimulationRun invoked more than once at a time
\* the invocations of advanceSimulationRun that may be under way together on the one run
Invocations == {1, 2}

\* startSimulationRun({scenario, seed}), no advanceSimulationRun under way yet
StartOverlapping ==
  /\ direct = <<>>
  /\ getScenarioConfig(config.name) # <<>>
  /\ direct' = <<[op |-> "overlap",
                  db |-> [run |-> startSimulationRun(getScenarioConfig(config.name)[1],
                                                     <<seed>>, DateNow["A"]),
                          hadzaDailyMetrics |-> <<>>,
                          hadzaEvents |-> <<>>,
                          hadzaNetworkSnapshots |-> <<>>],
                  loaded |-> [i \in Invocations |-> <<>>],
                  last |-> <<>>]>>
  /\ UNCHANGED <<config, seed, sim, history, lastStep, snapshot, serializeCalls, restoredFrom, llm>>

\* invocation i of advanceSimulationRun runs its query loadRun: a transaction of its own
OverlapLoad(i) ==
  /\ direct # <<>>
  /\ direct[1].loaded[i] = <<>>
  /\ Tables.run.currentDay < MaxDay
  /\ StepsRun(Tables.run)
  /\ direct' = <<[direct[1] EXCEPT
                    !.loaded = [j \in Invocations |-> IF j = i THEN <<Tables.run>> ELSE @[j]]]>>
  /\ UNCHANGED <<config, seed, sim, history, lastStep, snapshot, serializeCalls, restoredFrom, llm>>

\* invocation i steps the run it loaded and runs its mutation persistStep, a second
\* transaction, on the tables as they are by then
OverlapPersist(i) ==
  /\ direct # <<>>
  /\ direct[1].loaded[i] # <<>>
  /\ \E args \in {StepArgs(getScenarioConfig(direct[1].loaded[i][1].scenario)[1],
                           direct[1].loaded[i][1])} :
     \E after \in {persistStep(Tables, args)} :
       direct' = <<[direct[1] EXCEPT
                      !.db = after,
                      !.loaded = [j \in Invocations |-> IF j = i THEN <<>> ELSE @[j]],
                      !.last = <<[by |-> i, loaded |-> direct[1].loaded[i][1], found |-> Tables,
                                  left |-> after, day |-> args.day, metrics |-> TRUE]>>]>>
  /\ UNCHANGED <<config, seed, sim, history, lastStep, snapshot, serializeCalls, restoredFrom, llm>>

NextOverlap ==
  \/ StartOverlapping
  \/ \E i \in Invocations : OverlapLoad(i)
  \/ \E i \in Invocations : OverlapPersist(i)

\* a stored run advanced by invocations of advanceSimulationRun that may overlap
SpecOverlap == Init /\ [][NextOverlap]_vars

\* ------------------------------------- object identity: who shares what
\* the objects an AgentState is made of: the agent object itself and its object members
AgentParts ==
  {"agent", "emotion", "fehrSchmidt", "skillset", "preferences", "semanticMemory",
   "socialMemory", "episodicMemory", "lastActions"}

\* a deepCloneAgents that returns the agents it was given
ClonedNone == {}

\* the objects deepCloneAgents makes anew: { ...agent } and the six members it spreads or
\* maps; the others stay the objects of the original
ClonedParts ==
  {"agent", "skillset", "preferences", "semanticMemory", "socialMemory", "episodicMemory",
   "lastActions"}

\* the objects outside the agents that are made anew when a state is taken from a simulation
\* (SeasonalEnvironment.serialize copies the environment state, toState each edge and the
\* campMembership) or given to one (fromState hands state.environment and
\* state.network.campMembership over as they are; the SocialNetwork constructor copies
\* each edge)
StateCopies(how) ==
  IF how = "fromState" THEN {"edge"} ELSE {"environment", "edge", "campMembership"}

\* the objects a value shares with the simulation it came from or went into, as <<k, part>>
\* for agent k and <<0, part>> for the rest; the agents always come from deepCloneAgents
Shares(how, n) ==
  {<<k, part>> : k \in 1..n, part \in AgentParts \ ClonedParts}
    \cup {<<0, part>> : part \in {"environment", "edge", "campMembership"} \ StateCopies(how)}

\* whether the executions of a step had this agent among the participants
Participated(executions, agents, id) ==
  \E e \in 1..Len(executions) :
    \E p \in 1..Len(PresentParticipants(executions[e], agents)) :
      PresentParticipants(executions[e], agents)[p] = id

\* the objects a stepDay replaces by new ones in the simulation: the environment state in
\* tick, and for each participant the emotion, the memories and lastActions
Replaced(executions, agents) ==
  {<<0, "environment">>}
    \cup {<<k, part>> : k \in {k \in 1..Len(agents) : Participated(executions, agents, agents[k].id)},
                        part \in {"emotion", "episodicMemory", "socialMemory", "lastActions"}}

\* what a holder's copy of the state shows after a stepDay of the simulation: the step
\* writes into the agent objects (energy, hungerDebt, reputation, lastReflectionDay and the
\* members it assigns) and, in applyDecay, into the edges it keeps; a holder sharing those
\* objects sees the new values
SeenAfterStep(held, shared, before, after) ==
  [agents |-> [k \in 1..Len(held.agents) |->
                 IF <<k, "agent">> \in shared THEN after.agents[k] ELSE held.agents[k]],
   network |-> IF <<0, "edge">> \in shared
                 THEN [held.network EXCEPT !.edges =
                         [i \in 1..Len(held.network.edges) |->
                            LET edge == held.network.edges[i]
                                newWeight == DecayedWeight(edge.weight, before.network.forgetFactor)
                            IN  IF Pruned(newWeight) THEN edge
                                ELSE [edge EXCEPT !.weight = newWeight]]]
                 ELSE held.network]

\* an assignment through a holder's reference to one member of an agent
WritePart(agent, part) ==
  CASE part = "emotion" -> [agent EXCEPT !.emotion = [@ EXCEPT !.valence = -Scale]]
    [] part = "fehrSchmidt" -> [agent EXCEPT !.fehrSchmidt = [@ EXCEPT !.normPenalty = Scale]]
    [] part = "skillset" -> [agent EXCEPT !.skillset = [key \in DOMAIN @ |-> 0]]
    [] part = "lastActions" -> [agent EXCEPT !.lastActions = <<"rest">>]

\* the members a holder of a PlanRequest assigns to
WrittenParts == {"emotion", "fehrSchmidt", "skillset", "lastActions"}

\* agents with the k-th one written to
WriteAgent(agents, k, part) ==
  [j \in 1..Len(agents) |-> IF j = k THEN WritePart(agents[j], part) ELSE agents[j]]

\* what a caller holds: how it was obtained, the simulation concerned, its value when it was
\* obtained and now, the objects still shared, the writes made through it, and what the
\* simulation would be had nothing been written through it
Hold(how, run, value, n, shadow) ==
  <<[op |-> "hold", how |-> how, run |-> run, taken |-> value, held |-> value,
     shared |-> Shares(how, n), writes |-> 0, shadow |-> shadow]>>

\* state = sim.serialize() on A, kept by the caller
HoldSerialize ==
  /\ direct = <<>>
  /\ \E call \in {serialize(sim["A"])} :
       /\ sim' = [sim EXCEPT !["A"] = call.sim]
       /\ direct' = Hold("serialize", "A", call.state, Len(call.sim.agents), call.sim)
  /\ UNCHANGED <<config, seed, history, lastStep, snapshot, serializeCalls, restoredFrom, llm>>

\* B = CooperationSimulation.fromState(config, state) with a state the caller got from
\* A.serialize() and keeps
HoldFromState ==
  /\ direct = <<>>
  /\ restoredFrom = <<>>
  /\ \E call \in {serialize(sim["A"])} :
     \E built \in {fromState(config, call.state)} :
       /\ sim' = [sim EXCEPT !["A"] = call.sim, !["B"] = built]
       /\ direct' = Hold("fromState", "B", call.state, Len(built.agents), built)
  /\ history' = [history EXCEPT !["B"] = <<>>]
  /\ lastStep' = [lastStep EXCEPT !["B"] = <<>>]
  /\ restoredFrom' = <<Len(history["A"])>>
  /\ UNCHANGED <<config, seed, snapshot, serializeCalls, llm>>

\* the PlanRequest of a stepDay of A, kept by the adapter it was passed to
HoldPlanRequest ==
  /\ direct = <<>>
  /\ sim["A"].environment.day < MaxDay
  /\ direct' = Hold("planRequest", "A",
                    createPlanRequest(config, sim["A"].environment, sim["A"].agents),
                    Len(sim["A"].agents), sim["A"])
  /\ UNCHANGED <<config, seed, sim, history, lastStep, snapshot, serializeCalls, restoredFrom, llm>>

\* await sim.stepDay() on A while nothing is held, or on the simulation a held value belongs
\* to; the caller may keep the newState of the step
HeldStepDay ==
  \E r \in Runs, keep \in BOOLEAN :
    /\ sim[r].environment.day < MaxDay
    /\ IF direct = <<>> THEN r = "A" ELSE r = direct[1].run /\ ~keep
    /\ \E step \in {stepDay(config, NoAdapters, sim[r])} :
         /\ sim' = [sim EXCEPT ![r] = step.sim]
         /\ history' = [history EXCEPT ![r] = Append(@, step.result.newState)]
         /\ lastStep' = [lastStep EXCEPT ![r] =
                           <<[day |-> step.result.newState.environment.day,
                              before |-> sim[r],
                              assignments |-> step.result.assignments,
                              executions |-> step.executions,
                              orderedTasks |-> step.orderedTasks,
                              fallback |-> step.fallback,
                              trace |-> step.trace,
                              logs |-> step.result.logs]>>]
         /\ direct' =
              IF direct = <<>>
                THEN IF keep
                       THEN Hold("newState", r, step.result.newState, Len(step.sim.agents),
                                 step.sim)
                       ELSE <<>>
                ELSE <<[direct[1] EXCEPT
                          !.held = IF direct[1].how = "planRequest"
                                     THEN [@ EXCEPT !.agents =
                                             SeenAfterStep([agents |-> @, network |-> sim[r].network],
                                                           direct[1].shared, sim[r], step.sim).agents]
                                     ELSE [f \in DOMAIN @ |->
                                             IF f \in {"agents", "network"}
                                               THEN SeenAfterStep(@, direct[1].shared, sim[r], step.sim)[f]
                                               ELSE @[f]],
                          !.shared = @ \ Replaced(step.executions, sim[r].agents),
                          !.shadow = IF @ = sim[r] THEN step.sim
                                     ELSE stepDay(config, NoAdapters, @).sim]>>
    /\ UNCHANGED <<config, seed, snapshot, serializeCalls, restoredFrom, llm>>

\* the holder of a PlanRequest assigns to a member of one of its agents: an object the
\* request shares with the simulation is the simulation's as well
HolderWrites ==
  /\ direct # <<>>
  /\ direct[1].how = "planRequest"
  /\ direct[1].writes = 0
  /\ \E k \in 1..Len(direct[1].held.agents), part \in WrittenParts :
       /\ direct' = <<[direct[1] EXCEPT
                         !.held = [@ EXCEPT !.agents = WriteAgent(@, k, part)],
                         !.writes = @ + 1]>>
       /\ sim' = IF <<k, part>> \in direct[1].shared
                   THEN [sim EXCEPT ![direct[1].run] =
                           [@ EXCEPT !.agents = WriteAgent(@, k, part)]]
                   ELSE sim
  /\ UNCHANGED <<config, seed, history, lastStep, snapshot, serializeCalls, restoredFrom, llm>>

NextHeld ==
  \/ HoldSerialize
  \/ HoldFromState
  \/ HoldPlanRequest
  \/ HeldStepDay
  \/ HolderWrites

\* the simulations stepped while a caller keeps a state or a request it was given
SpecHeld == Init /\ [][NextHeld]_vars

\* ------------------------------------------ configurator: Scenario.ts
\* the agent ids of the scenarios: one agent, two, two of the same id, three, three with the
\* first id again
ScenarioIds ==
  {<<"ada">>, <<"ada", "bo">>, <<"ada", "ada">>, <<"ada", "bo", "cy">>, <<"ada", "bo", "ada">>}

\* the targetIds of the relationships of the k-th agent, in order: up to two out of the three
\* ids and an id no agent has; the third agent has fewer choices
ScenarioTargets(k) ==
  IF k < 3
    THEN {<<>>} \cup {<<a>> : a \in {"ada", "bo", "cy", "ghost"}}
           \cup {<<a, b>> : a, b \in {"ada", "bo", "cy", "ghost"}}
    ELSE {<<>>, <<"ada">>, <<"bo">>, <<"ada", "bo">>}

\* the map sizes a scenario asks for in world.mapConfig (integers >= 1)
MapSizes == {1, 2, 3, 4, 5, 16}

\* a Scenario that has every required member: the agents with these ids and relationship
\* targets, a name kept as its sequence of words, world.mapConfig and metadata.seed present (<<v>>) or not (<<>>), the first
\* agent with a startPosition or not, and one item of knowledge for the first agent
Scenario(ids, targets, mapConfig, seedArg, startPosition) ==
  [metadata |-> [name |-> <<"Harbour">>, seed |-> seedArg],
   world |-> [mapId |-> "default-town", mapConfig |-> mapConfig],
   agents |-> [k \in 1..Len(ids) |->
                 [id |-> ids[k],
                  name |-> ids[k],
                  startPosition |-> IF k = 1 THEN startPosition ELSE <<>>,
                  memory |-> [identity |-> "identity",
                              plan |-> "plan",
                              relationships |-> [i \in 1..Len(targets[k]) |->
                                                   [targetId |-> targets[k][i],
                                                    type |-> "friend"]],
                              knowledge |-> IF k = 1 THEN <<"fact">> ELSE <<>>]]]]

\* the scenarios given to the configurator: the ones that differ in ids and relationships,
\* on the default map, and the ones without relationships that differ in the map, the seed
\* and the startPosition
Scenarios ==
  {Scenario(ids, targets, <<>>, <<>>, <<>>) :
     ids \in ScenarioIds,
     targets \in {t \in [1..3 -> ScenarioTargets(1)] : t[3] \in ScenarioTargets(3)}}
  \cup
  {Scenario(ids, [k \in 1..3 |-> <<>>], mapConfig, seedArg, startPosition) :
     ids \in {ids \in ScenarioIds : \A i, j \in 1..Len(ids) : ids[i] = ids[j] => i = j},
     mapConfig \in {<<>>} \cup {<<[width |-> w, height |-> h]>> : w, h \in MapSizes},
     seedArg \in {<<>>, <<7>>},
     startPosition \in {<<>>, <<[x |-> 1, y |-> 1]>>}}

\* the issues ScenarioSchema.superRefine adds for a scenario: [message, agent, relationship]
SchemaIssues(scenario) ==
  LET agents == scenario.agents
      ids == {agents[k].id : k \in 1..Len(agents)}
      rels(k) == agents[k].memory.relationships
      issue(message, k, i) == [message |-> message, agent |-> k, relationship |-> i]
  IN  {issue("Duplicate agent id", k, 0) :
         k \in {k \in 1..Len(agents) : \E j \in 1..(k - 1) : agents[j].id = agents[k].id}}
      \cup UNION {
        {issue("Agents cannot target themselves", k, i) :
           i \in {i \in 1..Len(rels(k)) : rels(k)[i].targetId = agents[k].id}}
        \cup {issue("Unknown targetId", k, i) :
           i \in {i \in 1..Len(rels(k)) : rels(k)[i].targetId \notin ids}}
        \cup {issue("Duplicate relationship for same target", k, i) :
           i \in {i \in 1..Len(rels(k)) :
                    \E j \in 1..(i - 1) : rels(k)[j].targetId = rels(k)[i].targetId}}
        \cup {issue("Relationship is missing a reciprocal entry", k, i) :
           i \in {i \in 1..Len(rels(k)) :
                    /\ rels(k)[i].targetId \in ids
                    /\ LET counterpart ==
                             CHOOSE c \in 1..Len(agents) :
                               /\ agents[c].id = rels(k)[i].targetId
                               /\ \A d \in (c + 1)..Len(agents) : agents[d].id # agents[c].id
                       IN  \A j \in 1..Len(rels(counterpart)) :
                             rels(counterpart)[j].targetId # agents[k].id}}
        : k \in 1..Len(agents)}

\* sanitizeRelationships: the relationships to ids no agent has are dropped
sanitizeRelationships(scenario) ==
  [scenario EXCEPT
     !.agents = [k \in 1..Len(scenario.agents) |->
                   [scenario.agents[k] EXCEPT
                      !.memory = [@ EXCEPT
                         !.relationships =
                           SelectSeq(@, LAMBDA relationship :
                             \E j \in 1..Len(scenario.agents) :
                               scenario.agents[j].id = relationship.targetId)]]]]

\* an attemptRepair that sanitizes the relationships before it parses the draft again
attemptRepairSanitizing(raw) ==
  IF SchemaIssues(sanitizeRelationships(raw)) = {} THEN <<sanitizeRelationships(raw)>> ELSE <<>>

\* attemptRepair(raw, issues) for a raw scenario that has metadata, agents and memories: the
\* draft is parsed again and, if it passes, sanitized; <<>> for undefined
attemptRepair(raw) ==
  IF SchemaIssues(raw) = {} THEN <<sanitizeRelationships(raw)>> ELSE <<>>

\* validateScenario(raw): [ok, data, issues, repaired]; data and repaired are <<>> when the
\* result has no such member (canonicalizeScenario fills in members that are not kept here
\* and sanitizes)
validateScenario(raw) ==
  IF SchemaIssues(raw) = {}
    THEN [ok |-> TRUE, data |-> <<sanitizeRelationships(raw)>>, issues |-> {}, repaired |-> <<>>]
    ELSE [ok |-> FALSE, data |-> <<>>, issues |-> SchemaIssues(raw),
          repaired |-> attemptRepair(raw)]

\* ------------------------------------------ configurator: aiTownAdapter.ts
\* Math.cos(2 * Math.PI * u / 1000) for 0 <= u < 1000
CosOfTurn(u) ==
  IF u < 250 THEN CosQuarter((u * 6283) \div Scale)
  ELSE IF u < 500 THEN 0 - CosQuarter(3142 - ((u * 6283) \div Scale))
  ELSE IF u < 750 THEN 0 - CosQuarter(((u * 6283) \div Scale) - 3142)
  ELSE CosQuarter(6283 - ((u * 6283) \div Scale))

\* Math.round of a value in thousandths, as an integer
Round(value) == (value + 500) \div Scale

\* computeSpawnPosition(index, total, width, height, random), word being what random() draws
computeSpawnPosition(index, total, width, height, word) ==
  IF total = 1 THEN [x |-> width \div 2, y |-> height \div 2]
  ELSE LET turn == (index * Scale) \div total
           radius == Max(4 * Scale, (Min(width, height) * Scale) \div 3)
           jitter == (WordMilli(word) - 500) * 2
       IN  [x |-> clamp(Round((width * 500) + Mul(radius, CosOfTurn(turn)) + jitter),
                        2, width - 2),
            y |-> clamp(Round((height * 500) + Mul(radius, CosOfTurn((turn + 750) % Scale)) + jitter),
                        2, height - 2)]

\* scenarioToAiTownPlan(scenario, {now, mapDimensions}), both options given: ids are kept as <<"p", n>> and
\* <<"a", n>>; idMap holds for each scenario id the ids given to the last agent that has it
scenarioToAiTownPlan(scenario, now, mapDimensions) ==
  LET agents == scenario.agents
      total == Len(agents)
      mapWidth == IF scenario.world.mapConfig # <<>> THEN scenario.world.mapConfig[1].width
                  ELSE mapDimensions.width
      mapHeight == IF scenario.world.mapConfig # <<>> THEN scenario.world.mapConfig[1].height
                   ELSE mapDimensions.height
      rngSeed == IF scenario.metadata.seed # <<>> THEN scenario.metadata.seed[1] ELSE now
      draws(index) == Cardinality({j \in 1..index : agents[j].startPosition = <<>>})
      playerId(index) == <<"p", 2 * (index - 1)>>
      agentId(index) == <<"a", (2 * (index - 1)) + 1>>
      last(id) == CHOOSE k \in 1..total :
                    agents[k].id = id /\ \A j \in (k + 1)..total : agents[j].id # id
      firsts == SelectSeq([k \in 1..total |-> k],
                          LAMBDA k : \A j \in 1..(k - 1) : agents[j].id # agents[k].id)
      known(k) == SelectSeq(agents[k].memory.relationships,
                            LAMBDA relationship :
                              \E j \in 1..total : agents[j].id = relationship.targetId)
      memories(k) == [i \in 1..Len(known(k)) |->
                        [ownerAgentId |-> agentId(last(agents[k].id)),
                         ownerPlayerId |-> playerId(last(agents[k].id)),
                         targetAgentId |-> agentId(last(known(k)[i].targetId)),
                         targetPlayerId |-> playerId(last(known(k)[i].targetId)),
                         description |-> known(k)[i].type]]
      RECURSIVE Flatten(_)
      Flatten(k) == IF k > total THEN <<>> ELSE memories(k) \o Flatten(k + 1)
  IN  [world |-> [nextId |-> 2 * total,
                  players |-> [k \in 1..total |->
                                 [id |-> playerId(k),
                                  lastInput |-> now,
                                  position |->
                                    IF agents[k].startPosition # <<>>
                                      THEN agents[k].startPosition[1]
                                      ELSE computeSpawnPosition(
                                             k - 1, total, mapWidth, mapHeight,
                                             RngDraw(SeededRandom(rngSeed), draws(k)).word)]],
                  agents |-> [k \in 1..total |-> [id |-> agentId(k), playerId |-> playerId(k)]]],
       playerDescriptions |-> [k \in 1..total |->
                                 [playerId |-> playerId(k), name |-> agents[k].name,
                                  description |-> agents[k].memory.identity]],
       agentDescriptions |-> [k \in 1..total |->
                                [agentId |-> agentId(k), identity |-> agents[k].memory.identity,
                                 plan |-> agents[k].memory.plan]],
       relationshipMemories |-> Flatten(1),
       map |-> [mapId |-> scenario.world.mapId, width |-> mapWidth, height |-> mapHeight],
       scenario |-> scenario,
       assignments |-> [i \in 1..Len(firsts) |->
                          [scenarioAgentId |-> agents[firsts[i]].id,
                           agentId |-> agentId(last(agents[firsts[i]].id)),
                           playerId |-> playerId(last(agents[firsts[i]].id)),
                           name |-> agents[last(agents[firsts[i]].id)].name]]]

\* ------------------------------------------ configurator: applying a scenario to a world
\* what Date.now() returns when a plan is made, and the sizes getMapData returns for a map
Nows == {1, 1000}
MapDatas == {[width |-> 16, height |-> 12], [width |-> 32, height |-> 32]}

\* the tables of a database that has one world without players and no other document
EmptyWorld ==
  [world |-> [nextId |-> 0, players |-> <<>>, agents |-> <<>>],
   maps |-> <<>>,
   playerDescriptions |-> <<>>,
   agentDescriptions |-> <<>>,
   memories |-> <<>>,
   memoryEmbeddings |-> <<>>,
   configuratorScenarioSnapshots |-> <<>>,
   inserted |-> 0]

\* a wipeWorld that leaves the snapshots of the world in place
wipeWorldKeepingSnapshots(db) ==
  LET playerIds == {db.world.players[i].id : i \in 1..Len(db.world.players)}
  IN  [db EXCEPT
         !.world = [nextId |-> 0, players |-> <<>>, agents |-> <<>>],
         !.maps = IF @ = <<>> THEN <<>> ELSE Tail(@),
         !.playerDescriptions = <<>>,
         !.agentDescriptions = <<>>,
         !.memories = SelectSeq(@, LAMBDA row : row.playerId \notin playerIds),
         !.memoryEmbeddings = SelectSeq(@, LAMBDA row : row.playerId \notin playerIds)]

\* wipeWorld(ctx, worldId): the world is emptied, its first map, its descriptions and its
\* snapshots are deleted, and so are the memories and embeddings of the players it had
wipeWorld(db) ==
  LET playerIds == {db.world.players[i].id : i \in 1..Len(db.world.players)}
  IN  [db EXCEPT
         !.world = [nextId |-> 0, players |-> <<>>, agents |-> <<>>],
         !.maps = IF @ = <<>> THEN <<>> ELSE Tail(@),
         !.playerDescriptions = <<>>,
         !.agentDescriptions = <<>>,
         !.memories = SelectSeq(@, LAMBDA row : row.playerId \notin playerIds),
         !.memoryEmbeddings = SelectSeq(@, LAMBDA row : row.playerId \notin playerIds),
         !.configuratorScenarioSnapshots = <<>>]

\* insertDescriptions(ctx, plan, worldId)
insertDescriptions(db, made) ==
  [db EXCEPT
     !.playerDescriptions = @ \o made.playerDescriptions,
     !.agentDescriptions = @ \o made.agentDescriptions]

\* what insertRelationshipMemories writes, in order: one entry per relationship memory of
\* the plan, then one per item of knowledge of an agent that has an assignment
MemoryEntries(made) ==
  LET agents == made.scenario.agents
      assignment(id) ==
        CHOOSE a \in {made.assignments[i] : i \in 1..Len(made.assignments)} :
          a.scenarioAgentId = id
      RECURSIVE Knowledge(_)
      Knowledge(k) ==
        IF k > Len(agents) THEN <<>>
        ELSE [i \in 1..Len(agents[k].memory.knowledge) |->
                [playerId |-> assignment(agents[k].id).playerId,
                 description |-> agents[k].memory.knowledge[i],
                 data |-> [type |-> "reflection"]]]
             \o Knowledge(k + 1)
  IN  [i \in 1..Len(made.relationshipMemories) |->
         [playerId |-> made.relationshipMemories[i].ownerPlayerId,
          description |-> made.relationshipMemories[i].description,
          data |-> [type |-> "relationship",
                    playerId |-> made.relationshipMemories[i].targetPlayerId]]]
      \o Knowledge(1)

\* insertRelationshipMemories(ctx, plan): each entry is inserted as an embedding and a
\* memory that refers to it
insertRelationshipMemories(db, made, now) ==
  LET entries == MemoryEntries(made)
  IN  [db EXCEPT
         !.memoryEmbeddings =
            @ \o [i \in 1..Len(entries) |->
                    [id |-> db.inserted + i, playerId |-> entries[i].playerId]],
         !.memories =
            @ \o [i \in 1..Len(entries) |->
                    [playerId |-> entries[i].playerId,
                     description |-> entries[i].description,
                     embeddingId |-> db.inserted + i,
                     lastAccess |-> now,
                     data |-> entries[i].data]],
         !.inserted = @ + Len(entries)]

\* text.startsWith(prefix) for texts kept as sequences of words
StartsWith(text, prefix) ==
  Len(text) >= Len(prefix) /\ SubSeq(text, 1, Len(prefix)) = prefix

\* recordScenarioSnapshot(ctx, worldId, scenario, appliedAt): [db, appliedName]
recordScenarioSnapshot(db, scenario, appliedAt) ==
  LET existing == db.configuratorScenarioSnapshots
      baseName == scenario.metadata.name
      versionSuffix ==
        Cardinality({i \in 1..Len(existing) :
                       /\ StartsWith(existing[i].scenarioName, baseName)
                       /\ existing[i].scenarioSeed = scenario.metadata.seed})
      appliedName == IF versionSuffix > 0 THEN baseName \o <<"-v", versionSuffix + 1>>
                     ELSE baseName
  IN  [db |-> [db EXCEPT
                 !.configuratorScenarioSnapshots =
                    Append(@, [scenarioName |-> appliedName,
                               scenarioSeed |-> scenario.metadata.seed,
                               scenarioJson |->
                                 JSONStringify([scenario EXCEPT !.metadata.name = appliedName]),
                               appliedAt |-> appliedAt])],
       appliedName |-> appliedName]

\* applyScenarioInternal(ctx, scenario, worldId, resetFirst): [db, result]. The sprites that
\* applyAssetPipeline sets are not kept, so scenarioWithAssets is the scenario
applyScenarioInternal(db, scenario, resetFirst, now, mapData) ==
  LET wiped == IF resetFirst THEN wipeWorld(db) ELSE db
      made == scenarioToAiTownPlan(scenario, now, mapData)
      patched == [wiped EXCEPT
                    !.world = [nextId |-> made.world.nextId,
                               players |-> made.world.players,
                               agents |-> made.world.agents],
                    !.maps = <<[width |-> mapData.width, height |-> mapData.height]>>]
      recorded == recordScenarioSnapshot(
                    insertRelationshipMemories(insertDescriptions(patched, made), made, now),
                    scenario, now)
  IN  [db |-> recorded.db,
       result |-> [scenarioName |-> recorded.appliedName,
                   assignments |-> made.assignments,
                   map |-> made.map]]

\* the scenarios that are applied, as validateScenario returns them: one to three agents
\* that have no relationships or one to every other agent, and one of another name
AppliedScenarios ==
  {validateScenario(
     Scenario(ids,
              [k \in 1..3 |-> IF related /\ k <= Len(ids)
                                THEN SelectSeq(ids, LAMBDA id : id # ids[k])
                                ELSE <<>>],
              <<>>, <<>>, <<>>)).data[1] :
     ids \in {<<"ada">>, <<"ada", "bo">>, <<"ada", "bo", "cy">>}, related \in BOOLEAN}
  \cup {[Scenario(<<"ada">>, [k \in 1..3 |-> <<>>], <<>>, <<>>, <<>>)
           EXCEPT !.metadata.name = <<"Harbour", "Two">>]}

\* ------------------------------------------ the specification of the configurator
\* validateScenario(raw) is called
ApplyValidate ==
  /\ direct = <<>>
  /\ \E raw \in Scenarios :
       direct' = <<[op |-> "validateScenario", raw |-> raw, result |-> validateScenario(raw)]>>
  /\ UNCHANGED <<config, seed, sim, history, lastStep, snapshot, serializeCalls, restoredFrom, llm>>

\* scenarioToAiTownPlan(scenario, {now, mapDimensions}) is called
ApplyPlan ==
  /\ direct = <<>>
  /\ \E scenario \in Scenarios, now \in Nows, mapDimensions \in MapDatas :
       direct' = <<[op |-> "scenarioToAiTownPlan",
                    scenario |-> scenario,
                    mapDimensions |-> mapDimensions,
                    result |-> scenarioToAiTownPlan(scenario, now, mapDimensions)]>>
  /\ UNCHANGED <<config, seed, sim, history, lastStep, snapshot, serializeCalls, restoredFrom, llm>>

\* applyScenarioInternal is called for the world, the first time or again; the map data of
\* the world's map is the same at every call
ApplyScenario ==
  /\ \/ direct = <<>>
     \/ direct # <<>> /\ direct[1].op = "applyScenario" /\ direct[1].applies < MaxApplies
  /\ \E scenario \in AppliedScenarios, resetFirst \in BOOLEAN,
        mapData \in IF direct = <<>> THEN MapDatas ELSE {direct[1].mapData} :
       LET db == IF direct = <<>> THEN EmptyWorld ELSE direct[1].db
           applied == applyScenarioInternal(db, scenario, resetFirst, 1, mapData)
       IN  direct' = <<[op |-> "applyScenario",
                        scenario |-> scenario,
                        resetFirst |-> resetFirst,
                        mapData |-> mapData,
                        applies |-> IF direct = <<>> THEN 1 ELSE direct[1].applies + 1,
                        before |-> db,
                        db |-> applied.db,
                        result |-> applied.result]>>
  /\ UNCHANGED <<config, seed, sim, history, lastStep, snapshot, serializeCalls, restoredFrom, llm>>

NextScenario == ApplyValidate \/ ApplyPlan \/ ApplyScenario

\* the configurator does not use the simulations: one scenario configuration and seed
InitScenario == Init /\ config = BaseConfig /\ seed = 0

SpecScenario == InitScenario /\ [][NextScenario]_vars

\* ------------------------------------------ configurator: a database with two worlds
\* the worlds of the database
WorldIds == {"A", "B"}

\* the tables of a database with two worlds without players. The documents of the tables
\* that have a worldId column (worlds, maps, playerDescriptions, agentDescriptions,
\* configuratorScenarioSnapshots) are kept per world; memories and memoryEmbeddings have no
\* such column and are kept once. memoryIds is the set of the embeddings, and with them the
\* memories, that were inserted when a scenario was applied to the world
EmptyWorlds ==
  [of |-> [w \in WorldIds |->
             [world |-> EmptyWorld.world,
              maps |-> <<>>,
              playerDescriptions |-> <<>>,
              agentDescriptions |-> <<>>,
              configuratorScenarioSnapshots |-> <<>>,
              memoryIds |-> {}]],
   memories |-> <<>>,
   memoryEmbeddings |-> <<>>,
   inserted |-> 0]

\* what the queries of a mutation on world w see: the documents of world w in the tables
\* with a worldId column, and the tables without one whole
WorldView(dbs, w) ==
  [world |-> dbs.of[w].world,
   maps |-> dbs.of[w].maps,
   playerDescriptions |-> dbs.of[w].playerDescriptions,
   agentDescriptions |-> dbs.of[w].agentDescriptions,
   memories |-> dbs.memories,
   memoryEmbeddings |-> dbs.memoryEmbeddings,
   configuratorScenarioSnapshots |-> dbs.of[w].configuratorScenarioSnapshots,
   inserted |-> dbs.inserted]

\* the database after a mutation on world w has left db of what it saw; the memories of
\* world w are those it had and those inserted, as far as they are still there
WorldWritten(dbs, w, db) ==
  [of |-> [v \in WorldIds |->
             IF v # w THEN dbs.of[v]
             ELSE [world |-> db.world,
                   maps |-> db.maps,
                   playerDescriptions |-> db.playerDescriptions,
                   agentDescriptions |-> db.agentDescriptions,
                   configuratorScenarioSnapshots |-> db.configuratorScenarioSnapshots,
                   memoryIds |->
                     (dbs.of[w].memoryIds \cup (dbs.inserted + 1)..db.inserted)
                     \cap {db.memoryEmbeddings[i].id : i \in 1..Len(db.memoryEmbeddings)}]],
   memories |-> db.memories,
   memoryEmbeddings |-> db.memoryEmbeddings,
   inserted |-> db.inserted]

\* the scenarios applied to the two worlds: those of two or three agents
WorldScenarios == {scenario \in AppliedScenarios : Len(scenario.agents) >= 2}

\* the database of the two worlds before the first mutation and after the last one
Worlds == IF direct = <<>> THEN EmptyWorlds ELSE direct[1].dbs

\* one more mutation on the two worlds is allowed
MoreMutations ==
  \/ direct = <<>>
  \/ direct # <<>> /\ direct[1].op \in {"applyToWorld", "resetWorld"}
                   /\ direct[1].count < MaxApplies

\* applyScenario({scenario, worldId, resetFirst}) on world w
ApplyToWorld(w) ==
  /\ MoreMutations
  /\ \E scenario \in WorldScenarios, resetFirst \in BOOLEAN :
       LET applied == applyScenarioInternal(WorldView(Worlds, w), scenario, resetFirst, 1,
                                            [width |-> 16, height |-> 12])
       IN  direct' = <<[op |-> "applyToWorld",
                        worldId |-> w,
                        resetFirst |-> resetFirst,
                        count |-> IF direct = <<>> THEN 1 ELSE direct[1].count + 1,
                        before |-> Worlds,
                        dbs |-> WorldWritten(Worlds, w, applied.db)]>>
  /\ UNCHANGED <<config, seed, sim, history, lastStep, snapshot, serializeCalls, restoredFrom, llm>>

\* resetWorld({worldId}) on world w
ResetWorld(w) ==
  /\ MoreMutations
  /\ direct' = <<[op |-> "resetWorld",
                  worldId |-> w,
                  resetFirst |-> TRUE,
                  count |-> IF direct = <<>> THEN 1 ELSE direct[1].count + 1,
                  before |-> Worlds,
                  dbs |-> WorldWritten(Worlds, w, wipeWorld(WorldView(Worlds, w)))]>>
  /\ UNCHANGED <<config, seed, sim, history, lastStep, snapshot, serializeCalls, restoredFrom, llm>>

NextWorlds ==
  \/ \E w \in WorldIds : ApplyToWorld(w)
  \/ \E w \in WorldIds : ResetWorld(w)

\* scenarios applied to the two worlds of a database, and the worlds reset, in any order
SpecWorlds == InitScenario /\ [][NextWorlds]_vars

\* ------------------------------------------------------ properties
\* the steps both runs have taken
CommonSteps == 1..Min(Len(history["A"]), Len(history["B"]))

\* whether run B was built by initialize and no snapshot was taken of run A
Untouched == serializeCalls = 0 /\ restoredFrom = <<>>

C2_RestoreExact ==
  (/\ restoredFrom # <<>>
   /\ Len(history["B"]) >= 1
   /\ Len(history["A"]) > restoredFrom[1])
  => history["B"][1] = history["A"][restoredFrom[1] + 1]

\* C3: serialize changes no environment, agent, network or rng state, so a run on which
\* serialize was called returns from its stepDay calls what a run without the call returns
C3_SerializePure ==
  restoredFrom = <<>> => \A k \in CommonSteps : history["A"][k] = history["B"][k]

\* the ranges of one agent's reputation, emotion, energy and hunger debt
AgentInRange(agent) ==
  /\ 0 <= agent.reputation /\ agent.reputation <= Scale
  /\ -Scale <= agent.emotion.valence /\ agent.emotion.valence <= Scale
  /\ 0 <= agent.emotion.arousal /\ agent.emotion.arousal <= 1500
  /\ -Scale <= agent.emotion.mood /\ agent.emotion.mood <= Scale
  /\ agent.energy >= 0
  /\ agent.hungerDebt >= 0

NetworkWellFormed(edges) ==
  /\ \A i, j \in 1..Len(edges) :
       (edges[i].source = edges[j].source /\ edges[i].target = edges[j].target) => i = j
  /\ \A i \in 1..Len(edges) : edges[i].weight >= 10

\* whether the edges hold one from source to target
HasEdge(edges, source, target) ==
  \E i \in 1..Len(edges) : edges[i].source = source /\ edges[i].target = target

\* C5: in the network state after every stepDay there is at most one edge per ordered
\* pair (source, target) and every edge has weight >= 0.01
C5_NetworkEdges ==
  \A r \in Runs :
    /\ NetworkWellFormed(toState(sim[r].network).edges)
    /\ \A k \in 1..Len(history[r]) : NetworkWellFormed(history[r][k].network.edges)

\* a step reinforced an edge the network already held, and a step pruned an edge
C5_Witness ==
  \E r \in Runs : \E k, m \in 2..Len(history[r]) :
    /\ \E i \in 1..Len(history[r][k - 1].network.edges) :
         \E j \in 1..Len(history[r][k].network.edges) :
           /\ history[r][k].network.edges[j].source = history[r][k - 1].network.edges[i].source
           /\ history[r][k].network.edges[j].target = history[r][k - 1].network.edges[i].target
           /\ history[r][k].network.edges[j].weight > history[r][k - 1].network.edges[i].weight
    /\ \E i \in 1..Len(history[r][m - 1].network.edges) :
         ~HasEdge(history[r][m].network.edges,
                  history[r][m - 1].network.edges[i].source,
                  history[r][m - 1].network.edges[i].target)

\* the social memory of an agent among n: one entry per partner, none about itself
SocialMemoryWellFormed(agent, n) ==
  /\ \A i, j \in 1..Len(agent.socialMemory) :
       agent.socialMemory[i].partnerId = agent.socialMemory[j].partnerId => i = j
  /\ \A i \in 1..Len(agent.socialMemory) : agent.socialMemory[i].partnerId # agent.id
  /\ Len(agent.socialMemory) <= n - 1

\* C6: after every stepDay each agent's socialMemory holds at most one entry per
\* partnerId and none for the agent itself, so at most N - 1 entries
C6_SocialMemoryUnique ==
  \A r \in Runs : \A k \in 1..Len(sim[r].agents) :
    SocialMemoryWellFormed(sim[r].agents[k], Len(sim[r].agents))

\* an agent that remembered a partner from the day before has worked with it again
C6_Witness ==
  \E r \in Runs : \E d \in 2..Len(history[r]) : \E k \in 1..Len(history[r][d].agents) :
    \E i \in 1..Len(history[r][d - 1].agents[k].socialMemory) :
      \E j \in 1..Len(history[r][d].agents[k].socialMemory) :
        /\ history[r][d].agents[k].socialMemory[j].partnerId
             = history[r][d - 1].agents[k].socialMemory[i].partnerId
        /\ history[r][d].agents[k].socialMemory[j].lastInteractionDay
             = history[r][d].environment.day
        /\ history[r][d - 1].agents[k].socialMemory[i].lastInteractionDay
             = history[r][d - 1].environment.day

\* C7: after a stepDay ending on day d every socialMemory entry of every agent has
\* d - lastInteractionDay <= socialMemoryHorizonDays
C7_SocialMemoryHorizon ==
  \A r \in Runs : \A k \in 1..Len(sim[r].agents) :
    \A j \in 1..Len(sim[r].agents[k].socialMemory) :
      sim[r].environment.day - sim[r].agents[k].socialMemory[j].lastInteractionDay
        <= config.cognition.socialMemoryHorizonDays

\* C8: after a stepDay ending on day d every episodicMemory entry of every agent has
\* d - entry.day <= episodicWindowDays
C8_EpisodicWindow ==
  \A r \in Runs : \A k \in 1..Len(sim[r].agents) :
    \A j \in 1..Len(sim[r].agents[k].episodicMemory) :
      sim[r].environment.day - sim[r].agents[k].episodicMemory[j].day
        <= config.cognition.episodicWindowDays

\* the iterations of tasks.forEach in the assignTasks call of the last stepDay of a run
LastTrace(r) == IF lastStep[r] = <<>> THEN <<>> ELSE lastStep[r][1].trace

\* C9: a task assignTasks skips, for want of minParticipants available agents or of
\* minParticipants candidates passing the hunting gate, adds no execution, draws nothing
\* from the rng and leaves the set of available agents as it was
C9_SkippedTaskFrame ==
  \A r \in Runs : \A k \in 1..Len(LastTrace(r)) :
    LastTrace(r)[k].skipped =>
      /\ LastTrace(r)[k].executionsAfter = LastTrace(r)[k].executionsBefore
      /\ LastTrace(r)[k].stateAfter = LastTrace(r)[k].stateBefore
      /\ LastTrace(r)[k].availableAfter = LastTrace(r)[k].availableBefore

\* one assignTasks call skipped a hunt after its walk had taken a candidate past the gate,
\* and skipped another task because too few agents were left
C9_Witness ==
  \E r \in Runs : \E k, m \in 1..Len(LastTrace(r)) :
    /\ LastTrace(r)[k].skipped
    /\ LastTrace(r)[k].category = "hunting"
    /\ Len(LastTrace(r)[k].tentative) > 0
    /\ Len(LastTrace(r)[k].tentative) < LastTrace(r)[k].minParticipants
    /\ LastTrace(r)[m].skipped
    /\ Cardinality(LastTrace(r)[m].availableBefore) < LastTrace(r)[m].minParticipants

\* the task of the scenario with this id
TaskById(cfg, id) == cfg.tasks[CHOOSE k \in 1..Len(cfg.tasks) : cfg.tasks[k].id = id]

\* the executions of the assignTasks call of the last stepDay of a run
LastExecutions(r) == IF lastStep[r] = <<>> THEN <<>> ELSE lastStep[r][1].executions

\* C10: in every execution assignTasks returns for a task of category hunting every
\* participant has hunting skill >= 0.3, and there are at least minParticipants of them
C10_HuntingGate ==
  \A r \in Runs : \A e \in 1..Len(LastExecutions(r)) :
    LET assignment == LastExecutions(r)[e].assignment
        task == TaskById(config, assignment.taskId)
    IN  task.category = "hunting" =>
          /\ \A p \in 1..Len(assignment.participants) :
               SkillOf(AgentWithId(lastStep[r][1].before.agents, assignment.participants[p]),
                       "hunting") >= 300
          /\ Len(assignment.participants) >= task.minParticipants

\* the executions of the last stepDay of a run for tasks that divide by this norm
ExecutionsByNorm(r, norm) ==
  SelectSeq(LastExecutions(r), LAMBDA e : TaskById(config, e.assignment.taskId).norm = norm)

\* C11: in every execution of an equal_share task each participant's share is the total
\* reward divided by the number of participants, the total being yieldPerParticipant times
\* their number on success and 0 on failure
C11_EqualShare ==
  \A r \in Runs : \A k \in 1..Len(ExecutionsByNorm(r, "equal_share")) :
    LET execution == ExecutionsByNorm(r, "equal_share")[k]
        task == TaskById(config, execution.assignment.taskId)
        n == Len(execution.assignment.participants)
        total == IF execution.assignment.outcome = "success"
                   THEN task.yieldPerParticipant[1] * n ELSE 0
    IN  /\ execution.assignment.reward = total
        /\ \A p \in 1..n : execution.rewards[execution.assignment.participants[p]] = total \div n

\* two agents foraged with success at yieldPerParticipant 4 and each received 4
C11_Witness ==
  \E r \in Runs : \E k \in 1..Len(ExecutionsByNorm(r, "equal_share")) :
    LET execution == ExecutionsByNorm(r, "equal_share")[k]
    IN  /\ execution.assignment.outcome = "success"
        /\ Len(execution.assignment.participants) = 2
        /\ TaskById(config, execution.assignment.taskId).yieldPerParticipant = <<4000>>
        /\ \A p \in 1..2 : execution.rewards[execution.assignment.participants[p]] = 4000

\* the stepDay() in flight is inside LLMDecisionCore.plan or has it returned
Planning == llm.pc \in {"loop", "returned"}

\* C13: plan consults the adapters in the order openai-responses, bedrock-converse, ollama:
\* generatePlan is called on enabled adapters only, on each at most once and in that order,
\* on the next one only after the call before it failed and after every enabled adapter
\* before it was called; the first response an adapter gives is what plan returns, and no
\* adapter is called after it
C13_AdapterOrder ==
  Planning =>
    /\ [k \in 1..3 |-> llm.adapters[k].provider] = <<"openai-responses", "bedrock-converse", "ollama">>
    /\ \A c \in 1..Len(llm.calls) :
         /\ llm.adapters[llm.calls[c].index].enabled
         /\ llm.adapters[llm.calls[c].index].provider = llm.calls[c].provider
         /\ c < Len(llm.calls) =>
              /\ llm.calls[c].index < llm.calls[c + 1].index
              /\ llm.calls[c].failed
    /\ \A k \in 1..3 :
         (llm.adapters[k].enabled /\ (k < llm.next \/ (llm.pc = "returned" /\ k = llm.next)))
           => \E c \in 1..Len(llm.calls) : llm.calls[c].index = k
    /\ \A c \in 1..Len(llm.calls) : llm.calls[c].index <= llm.next
    /\ (llm.pc = "loop") => \A c \in 1..Len(llm.calls) : llm.calls[c].failed
    /\ (llm.pc = "returned") =>
         /\ llm.response = <<plan(llm.adapters, llm.request)>>
         /\ (Len(llm.calls) > 0 /\ ~llm.calls[Len(llm.calls)].failed) =>
              /\ llm.response[1].usage.provider = llm.calls[Len(llm.calls)].provider
              /\ llm.response[1] = generatePlan(llm.calls[Len(llm.calls)].provider,
                                                llm.adapters[llm.calls[Len(llm.calls)].index].reply[1])

\* plan returned the response of bedrock-converse after openai-responses had failed, with
\* ollama enabled and never called
C13_Witness ==
  /\ llm.pc = "returned"
  /\ \A k \in 1..3 : llm.adapters[k].enabled
  /\ Len(llm.calls) = 2
  /\ llm.calls[1].provider = "openai-responses" /\ llm.calls[1].failed
  /\ llm.calls[2].provider = "bedrock-converse" /\ ~llm.calls[2].failed
  /\ llm.response[1].usage.provider = "bedrock-converse"

\* plan returned without any adapter having answered
NoAdapterAnswered ==
  /\ llm.pc = "returned"
  /\ \A c \in 1..Len(llm.calls) : llm.calls[c].failed

\* C14: when no adapter is enabled or every enabled adapter failed, plan still returns, and
\* what it returns is the heuristic response: usage.provider 'heuristic' and one item per
\* pending task in the order of the pending tasks, or the single idle_day item when no task
\* is pending
C14_HeuristicFallback ==
  /\ (llm.pc = "loop" /\ llm.next > Len(llm.adapters)) => ENABLED PlanHeuristic
  /\ NoAdapterAnswered =>
       LET response == llm.response[1]
           pending == llm.request.pendingTasks
       IN  /\ response.usage.provider = "heuristic"
           /\ IF Len(pending) > 0
                THEN /\ Len(response.plans) = Len(pending)
                     /\ \A k \in 1..Len(pending) :
                          /\ response.plans[k].agentId = pending[k].id
                          /\ response.plans[k].intent = HeuristicIntent(pending[k])
                          /\ response.plans[k].rationale = "heuristic_allocation"
                ELSE /\ Len(response.plans) = 1
                     /\ response.plans[1].agentId = "none"
                     /\ response.plans[1].rationale = "idle_day"

\* all three adapters were enabled, all three failed, and plan returned three heuristic
\* items for three pending tasks
C14_Witness ==
  /\ NoAdapterAnswered
  /\ Len(llm.calls) = 3
  /\ Len(llm.request.pendingTasks) = 3
  /\ Len(llm.response[1].plans) = 3
  /\ llm.response[1].usage.provider = "heuristic"

\* plan returned the idle_day item for a request without pending tasks
IdleDayReturned ==
  /\ NoAdapterAnswered
  /\ Len(llm.request.pendingTasks) = 0
  /\ llm.response[1].plans[1].rationale = "idle_day"

\* the executions the last direct call of assignTasks returned
DirectExecutions ==
  IF direct # <<>> /\ direct[1].op = "assignTasks" THEN direct[1].result.executions ELSE <<>>

\* the task of the last direct call of assignTasks an execution is of: the one of the
\* sequence passed, or the scenario's camp_maintenance the idle fallback falls back to
DirectTask(execution) ==
  LET known == SelectSeq(direct[1].tasks \o config.tasks,
                         LAMBDA t : t.id = execution.assignment.taskId)
  IN  known[1]

\* C12: in every execution of a collective_penalty task every participant's share of the
\* reward is 0, whether the task succeeded, with a positive total reward, or failed
C12_CollectivePenalty ==
  \A k \in 1..Len(DirectExecutions) :
    LET execution == DirectExecutions[k]
    IN  DirectTask(execution).norm = "collective_penalty" =>
          /\ DOMAIN execution.rewards = {execution.assignment.participants[p] :
                                           p \in 1..Len(execution.assignment.participants)}
          /\ \A id \in DOMAIN execution.rewards : execution.rewards[id] = 0

\* a call ran the night watch, a collective_penalty task, with two agents, success and a
\* positive total reward
C12_Witness ==
  \E k \in 1..Len(DirectExecutions) :
    /\ DirectTask(DirectExecutions[k]).norm = "collective_penalty"
    /\ DirectExecutions[k].assignment.outcome = "success"
    /\ DirectExecutions[k].assignment.reward > 0
    /\ Len(DirectExecutions[k].assignment.participants) = 2

\* a direct call ran a collective_penalty task that failed
PenaltyTaskFailed ==
  \E k \in 1..Len(DirectExecutions) :
    /\ DirectTask(DirectExecutions[k]).norm = "collective_penalty"
    /\ DirectExecutions[k].assignment.outcome = "failure"

\* whether the last direct call was of orderTasksByPlan
OrderCalled == direct # <<>> /\ direct[1].op = "orderTasksByPlan"

\* the least index of an item of the plan whose lowercased intent contains the id or the
\* name of the task, counted from 0; the number of items when no item does
MinPlanIndex(items, task) ==
  LET matching == {index \in 1..Len(items) :
                     \/ includes(toLowerCase(items[index].intent), Chars[task.id])
                     \/ includes(toLowerCase(items[index].intent), Chars[task.name])}
  IN  IF matching = {} THEN Len(items)
      ELSE (CHOOSE index \in matching : \A other \in matching : index <= other) - 1

\* the place of a task in a sequence of tasks with different ids
PlaceIn(tasks, task) == CHOOSE k \in 1..Len(tasks) : tasks[k] = task

\* C15: orderTasksByPlan returns the tasks of the scenario, each once, ordered by the least
\* index of a plan item naming the task; tasks no item names come after all that are named,
\* and tasks of equal rank stay in the order the scenario declares them
C15_OrderTasksByPlan ==
  OrderCalled =>
    LET result == direct[1].result
        tasks == direct[1].tasks
        items == direct[1].plan.plans
    IN  /\ Len(result) = Len(tasks)
        /\ \A k \in 1..Len(tasks) : \E pos \in 1..Len(result) : result[pos] = tasks[k]
        /\ \A i, j \in 1..Len(result) :
             i < j =>
               \/ MinPlanIndex(items, result[i]) < MinPlanIndex(items, result[j])
               \/ /\ MinPlanIndex(items, result[i]) = MinPlanIndex(items, result[j])
                  /\ PlaceIn(tasks, result[i]) < PlaceIn(tasks, result[j])

\* the plan named forage first, then camp_maintenance and the hunt in one item, then the
\* hunt again: forage came first, the hunt and the maintenance followed in declared order
C15_Witness ==
  /\ OrderCalled
  /\ [k \in 1..Len(direct[1].plan.plans) |-> direct[1].plan.plans[k].intent]
       = <<Chars["forage"], Chars["camp_maintenance"] \o <<" ">> \o Chars["Hunt"], Chars["Hunt"]>>
  /\ direct[1].tasks = <<TaskHunt, TaskForage, TaskMaintenance>>
  /\ direct[1].result = <<TaskForage, TaskHunt, TaskMaintenance>>

\* a task no item of the plan named was moved behind the tasks named
UnmatchedMovedLast ==
  /\ OrderCalled
  /\ direct[1].tasks = <<TaskHunt, TaskForage, TaskMaintenance>>
  /\ direct[1].result = <<TaskHunt, TaskMaintenance, TaskForage>>

\* the environment a run had before its last stepDay
EnvBefore(r) == lastStep[r][1].before.environment

\* C16: each stepDay raises environment.day by exactly 1 and sets, for the new day,
\* seasonIndex = floor(day / seasonLengthDays) mod |seasons| and
\* seasonDay = day mod seasonLengthDays, in the state of the simulation and in the newState
\* it returns
C16_DayAndSeason ==
  \A r \in Runs :
    lastStep[r] # <<>> =>
      LET env == sim[r].environment
          day == EnvBefore(r).day + 1
      IN  /\ env.day = day
          /\ env.seasonIndex = (day \div config.timeline.seasonLengthDays) % Len(config.seasons)
          /\ env.seasonDay = day % config.timeline.seasonLengthDays
          /\ history[r][Len(history[r])].environment = env

\* a stepDay took a run from the last season of the scenario back to the first
C16_Witness ==
  \E r \in Runs :
    /\ lastStep[r] # <<>>
    /\ EnvBefore(r).seasonIndex = Len(config.seasons) - 1
    /\ sim[r].environment.seasonIndex = 0
    /\ sim[r].environment.day = EnvBefore(r).day + 1

\* the part of the invariant of an EnvironmentState that tick and composeHazard compute
\* with a modulus or a clamp
SeasonAndHazardsInRange(env) ==
  /\ env.seasonIndex \in 0..(Len(config.seasons) - 1)
  /\ env.day >= 0
  /\ \A hazard \in {"injury", "hypothermia", "predator"} :
       env.riskModifier[hazard] >= 0 /\ env.riskModifier[hazard] <= Scale

\* the season, the day and the hazards of every environment of the simulations are in range
SeasonsAndHazardsInRange == \A r \in Runs : SeasonAndHazardsInRange(sim[r].environment)

\* the invariant of an EnvironmentState
EnvironmentWellFormed(env) ==
  /\ SeasonAndHazardsInRange(env)
  /\ \A resource \in {"plants", "smallGame", "largeGame"} : env.resourceLevel[resource] >= 0

\* C17: the environment after initialize and after any number of ticks, in the simulation
\* and in every newState and snapshot: 0 <= seasonIndex < |seasons|, day >= 0, every
\* riskModifier component in [0, 1], every resource level >= 0
C17_EnvironmentInvariant ==
  /\ \A r \in Runs :
       /\ EnvironmentWellFormed(sim[r].environment)
       /\ \A k \in 1..Len(history[r]) : EnvironmentWellFormed(history[r][k].environment)
  /\ \A k \in 1..Len(snapshot) : EnvironmentWellFormed(snapshot[k].state.environment)

\* a tick into winter clamped the injury rate at 0 and the hypothermia rate at 1
HazardsClamped ==
  \E r \in Runs :
    /\ sim[r].environment.seasonIndex = 1
    /\ sim[r].environment.riskModifier.injury = 0
    /\ sim[r].environment.riskModifier.hypothermia = Scale

\* C18: from the entry of stepDay until llm.plan has returned, whichever adapters were
\* called, the environment, the agents, the network and the generator of the simulation are
\* what they were when stepDay was entered, and no step result or log has been produced
C18_NoMutationBeforePlan ==
  Planning =>
    /\ sim["A"] = llm.before
    /\ llm.request = createPlanRequest(config, llm.before.environment, llm.before.agents)
                       \/ llm.caller = "direct"
    /\ lastStep["A"] # <<>> => lastStep["A"][1].day = llm.before.environment.day
    /\ Len(history["A"]) = llm.before.environment.day

\* on the second day stepDay has its plan back from ollama, after openai-responses failed
C18_Witness ==
  /\ llm.pc = "returned"
  /\ llm.caller = "stepDay"
  /\ llm.before.environment.day = 1
  /\ Len(llm.calls) = 2
  /\ llm.response[1].usage.provider = "ollama"
  /\ sim["A"].rng = llm.before.rng

\* whether the last direct call was of assignTasks
AssignCalled == direct # <<>> /\ direct[1].op = "assignTasks"

\* the number of executions the task loop of the last direct assignTasks call added
LoopExecutions == Cardinality({k \in 1..Len(direct[1].result.trace) : ~direct[1].result.trace[k].skipped})

\* the agents no execution of the task loop took
RemainingAgents ==
  IdsOf(direct[1].agents)
    \ UNION {{direct[1].result.executions[k].assignment.participants[p] :
                p \in 1..Len(direct[1].result.executions[k].assignment.participants)} :
             k \in 1..LoopExecutions}

\* whether the task sequence passed or the scenario has a task with id camp_maintenance
MaintenanceExists ==
  \E t \in {direct[1].tasks[k] : k \in 1..Len(direct[1].tasks)}
             \cup {config.tasks[k] : k \in 1..Len(config.tasks)} : t.id = "camp_maintenance"

\* C19: when agents remain unassigned after the task loop and a camp_maintenance task
\* exists, assignTasks appends exactly one execution more, of camp_maintenance, whose
\* participants are the remaining agents, each once, with outcome success, reward 0, every
\* share 0 and no injuries; when no such task exists, or no agent remains, it appends none
C19_IdleFallback ==
  AssignCalled =>
    LET executions == direct[1].result.executions
    IN  IF RemainingAgents # {} /\ MaintenanceExists
          THEN /\ Len(executions) = LoopExecutions + 1
               /\ LET last == executions[Len(executions)]
                  IN  /\ last.assignment.taskId = "camp_maintenance"
                      /\ {last.assignment.participants[p] :
                            p \in 1..Len(last.assignment.participants)} = RemainingAgents
                      /\ Len(last.assignment.participants) = Cardinality(RemainingAgents)
                      /\ last.assignment.outcome = "success"
                      /\ last.assignment.reward = 0
                      /\ last.assignment.injuries = <<>>
                      /\ DOMAIN last.rewards = RemainingAgents
                      /\ \A id \in RemainingAgents : last.rewards[id] = 0
          ELSE Len(executions) = LoopExecutions

\* a foraging task took two of the three agents and the third was put on camp maintenance
C19_Witness ==
  /\ AssignCalled
  /\ LoopExecutions = 1
  /\ Cardinality(RemainingAgents) = 1
  /\ Len(direct[1].result.executions) = 2
  /\ direct[1].result.executions[1].assignment.taskId = "forage"
  /\ direct[1].result.executions[2].assignment.taskId = "camp_maintenance"

\* agents remained, no camp_maintenance task existed, and no execution was added for them
RemainingLeftIdle ==
  /\ AssignCalled
  /\ RemainingAgents # {}
  /\ ~MaintenanceExists
  /\ Len(direct[1].result.executions) = LoopExecutions
  /\ LoopExecutions > 0

\* whether the logs of the last stepDay of a run hold a reflection of this agent
ReflectionLogged(r, id) ==
  \E l \in 1..Len(lastStep[r][1].logs) :
    /\ lastStep[r][1].logs[l].type = "reflection"
    /\ lastStep[r][1].logs[l].agentId = <<id>>

\* the days, among those a run was stepped through, on which this agent reflected
ReflectionDays(r, id) ==
  {history[r][k].environment.day : k \in {k \in 1..Len(history[r]) :
     AgentWithId(history[r][k].agents, id).lastReflectionDay = history[r][k].environment.day}}

\* C20: in a stepDay of day d an agent produces a reflection exactly when
\* d - lastReflectionDay >= reflectionIntervalDays, and then its lastReflectionDay becomes d;
\* otherwise no reflection is logged and lastReflectionDay stays; any two days on which one
\* agent reflected are at least reflectionIntervalDays apart
C20_ReflectionInterval ==
  \A r \in Runs :
    lastStep[r] # <<>> =>
      \A id \in IdsOf(lastStep[r][1].before.agents) :
        LET before == AgentWithId(lastStep[r][1].before.agents, id)
            after == AgentWithId(sim[r].agents, id)
            day == lastStep[r][1].day
            due == day - before.lastReflectionDay >= config.cognition.reflectionIntervalDays
        IN  /\ ReflectionLogged(r, id) <=> due
            /\ after.lastReflectionDay = IF due THEN day ELSE before.lastReflectionDay
            /\ \A first, second \in ReflectionDays(r, id) :
                 first < second => second - first >= config.cognition.reflectionIntervalDays

\* with an interval of two days an agent reflected on day 1, not on day 2, and again on day 3
C20_Witness ==
  \E r \in Runs : \E id \in IdsOf(sim[r].agents) :
    /\ config.cognition.reflectionIntervalDays = 2
    /\ Len(history[r]) = 3
    /\ ReflectionDays(r, id) = {1, 3}
    /\ ReflectionLogged(r, id)

\* ------------------------------------------------------- properties C21..C30
\* a direct call of initialize was made
InitializeCalled == direct # <<>> /\ direct[1].op = "initialize"

\* C21: right after initialize(config, seed) the environment is at day 0 in season 0, there
\* are exactly agentPopulation.size agents with the distinct ids agent_1..agent_N, agent i is
\* in camp (i - 1) mod 3 of Camp-A, Camp-B, Camp-C and the network's campMembership maps its
\* id to that camp, its energy is 1.2 times dailyEnergyNeed, its reputation 0.5, its social
\* and episodic memories are empty, its lastReflectionDay is -1, and the network has no edge
C21_InitialState ==
  InitializeCalled =>
    LET made == direct[1].result
        cfg == direct[1].config
        size == cfg.agentPopulation.size
    IN  /\ made.environment.day = 0
        /\ made.environment.seasonIndex = 0
        /\ Len(made.agents) = size
        /\ IdsOf(made.agents) = 1..size
        /\ DOMAIN made.network.campMembership = 1..size
        /\ made.network.edges = <<>>
        /\ \A i \in 1..size :
             LET agent == AgentWithId(made.agents, i)
             IN  /\ agent = made.agents[i]
                 /\ agent.campId = Camps[((i - 1) % 3) + 1]
                 /\ made.network.campMembership[i] = agent.campId
                 /\ agent.energy = Mul(cfg.defaults.dailyEnergyNeed, 1200)
                 /\ agent.reputation = 500
                 /\ agent.socialMemory = <<>>
                 /\ agent.episodicMemory = <<>>
                 /\ agent.lastReflectionDay = -1

\* initialize built four agents, the fourth again in Camp-A
C21_Witness ==
  /\ InitializeCalled
  /\ Len(direct[1].result.agents) = 4
  /\ direct[1].result.agents[4].campId = "Camp-A"
  /\ direct[1].result.network.campMembership[4] = "Camp-A"

RECURSIVE StepGain(_, _, _, _, _)
\* what the reinforceInteraction calls of executions e.. add to the edge source -> target
StepGain(executions, agents, source, target, e) ==
  IF e > Len(executions) THEN 0
  ELSE LET calls == ExecutionInteractions(executions[e], agents)
           RECURSIVE Sum(_)
           Sum(k) == IF k > Len(calls) THEN 0
                     ELSE (IF calls[k].source = source /\ calls[k].target = target
                             THEN calls[k].delta ELSE 0) + Sum(k + 1)
       IN  Sum(1) + StepGain(executions, agents, source, target, e + 1)

\* the edges of a SocialNetwork from source to target (none or one)
EdgesBetween(network, source, target) ==
  SelectSeq(toState(network).edges, LAMBDA edge : edge.source = source /\ edge.target = target)

C30_DecayAfterOutcomes ==
  \A r \in Runs :
    lastStep[r] # <<>> =>
      LET before == lastStep[r][1].before
      IN  toState(sim[r].network)
            = toState(applyDecay(ApplyToNetwork(before.network, before.agents,
                                                lastStep[r][1].executions, 1)))

\* something is held
Holding == direct # <<>> /\ direct[1].op = "hold"

\* a SimulationState from serialize() or stepDay().newState is not changed by later steps of
\* the simulation, nor is the state passed to fromState by steps of the simulation built
StatesDetached ==
  Holding /\ direct[1].how \in {"serialize", "newState", "fromState"} =>
    direct[1].held = direct[1].taken

\* C23: snapshots are detached: a SimulationState returned by serialize() or as newState is
\* never changed by later stepDay() calls, stepDay() on a simulation built by fromState never
\* changes the state passed in, and the agents of a PlanRequest are copies whose
\* modification does not affect the simulation's agents
C23_SnapshotsDetached ==
  /\ StatesDetached
  /\ Holding /\ direct[1].how = "planRequest" => sim[direct[1].run] = direct[1].shadow

\* mergeScenarioConfig was called
MergeCalled == direct # <<>> /\ direct[1].op = "mergeScenarioConfig"

\* a name the registry does not hold is rejected, and every scenario getScenarioConfig
\* returns passes assertScenario
RegistryChecked ==
  /\ MergeCalled /\ direct[1].name = "unknown" => direct[1].result = <<>>
  /\ \A c \in Configs : getScenarioConfig(c.name) # <<>> =>
                           assertScenario(getScenarioConfig(c.name)[1]) = <<>>
  /\ getScenarioConfig(config.name) = <<config>>

\* C22: configuration errors are fatal at construction time: a scenario name missing from
\* the registry and a configuration without name or displayName, with empty
\* dailyMicroInteractions, with an invalid season name or with an empty task list are
\* rejected with an error, so that no CooperationSimulation is built over one
C22_ConfigErrorsFatal ==
  MergeCalled =>
    /\ direct[1].name = "unknown" => direct[1].result = <<>>
    /\ direct[1].simulation # <<>> => assertScenario(direct[1].result[1]) = <<>>

\* an advanceSimulationRun has finished
Advanced == direct # <<>> /\ direct[1].op = "runs" /\ direct[1].last # <<>>

\* C24: stepping a run never changes its status: advanceSimulationRun leaves the status of
\* the run as it found it, and when the run it loaded is not 'running' it performs no step
\* and writes nothing: state, currentDay, daily metrics, events and network snapshots stay
C24_StatusUntouched ==
  Advanced =>
    LET last == direct[1].last[1]
    IN  /\ last.left.run.status = last.found.run.status
        /\ last.loaded.status # "running" =>
             /\ last.left = last.found
             /\ ~last.metrics
             /\ last.day = last.loaded.currentDay

\* a run paused after its first day was advanced: it returned day 1 without metrics and the
\* tables still hold the one row of metrics and the one network snapshot of day 1
C24_Witness ==
  /\ Advanced
  /\ direct[1].last[1].loaded.status = "paused"
  /\ direct[1].last[1].loaded.currentDay = 1
  /\ direct[1].last[1].day = 1
  /\ Len(Tables.hadzaDailyMetrics) = 1
  /\ Len(Tables.hadzaNetworkSnapshots) = 1
  /\ JSONParse(Tables.run.state).environment.day = 1

\* ------------------------------------------ configurator
Validated == direct # <<>> /\ direct[1].op = "validateScenario"

\* the scenario has a relationship whose targetId is the id of none of its agents
TargetsUnknown(scenario) ==
  \E k \in 1..Len(scenario.agents) :
    \E i \in 1..Len(scenario.agents[k].memory.relationships) :
      \A j \in 1..Len(scenario.agents) :
        scenario.agents[j].id # scenario.agents[k].memory.relationships[i].targetId

\* C25: validateScenario returns ok = true only for scenarios in which the agent ids are
\* distinct and every relationship targets an existing agent other than its owner, at most
\* once per owner, with a reciprocal relationship on the target; a scenario with a
\* relationship to an unknown agent id yields ok = false and no repaired scenario
C25_ValidationStrict ==
  Validated =>
    LET agents == direct[1].raw.agents
        result == direct[1].result
        targets(k) == agents[k].memory.relationships
    IN  /\ result.ok =>
             /\ \A j, k \in 1..Len(agents) : agents[j].id = agents[k].id => j = k
             /\ \A k \in 1..Len(agents) : \A i \in 1..Len(targets(k)) :
                  /\ targets(k)[i].targetId # agents[k].id
                  /\ \A j \in 1..Len(targets(k)) :
                       targets(k)[j].targetId = targets(k)[i].targetId => j = i
                  /\ \E t \in 1..Len(agents) :
                       /\ agents[t].id = targets(k)[i].targetId
                       /\ \E j \in 1..Len(targets(t)) : targets(t)[j].targetId = agents[k].id
        /\ TargetsUnknown(direct[1].raw) => ~result.ok /\ result.repaired = <<>>

\* validateScenario was given a scenario whose only flaw is a relationship to an unknown id,
\* between agents that have a reciprocal relationship, and rejected it
C25_Witness ==
  /\ Validated
  /\ TargetsUnknown(direct[1].raw)
  /\ SchemaIssues(sanitizeRelationships(direct[1].raw)) = {}
  /\ Len(direct[1].raw.agents) = 2
  /\ Len(direct[1].raw.agents[1].memory.relationships) = 2
  /\ ~direct[1].result.ok
  /\ direct[1].result.repaired = <<>>
  /\ direct[1].result.issues # {}

Planned == direct # <<>> /\ direct[1].op = "scenarioToAiTownPlan"

\* the players, agents and assignments of the plan are one per scenario agent, the ids are
\* pairwise distinct and every assignment names a created player
OnePerAgent(scenario, made) ==
  LET players == made.world.players
      agents == made.world.agents
  IN  /\ Len(players) = Len(scenario.agents)
      /\ Len(agents) = Len(scenario.agents)
      /\ Len(made.assignments) = Len(scenario.agents)
      /\ \A j, k \in 1..Len(players) : players[j].id = players[k].id => j = k
      /\ \A j, k \in 1..Len(agents) : agents[j].id = agents[k].id => j = k
      /\ \A i \in 1..Len(made.assignments) :
           \E k \in 1..Len(players) : players[k].id = made.assignments[i].playerId

\* C26: for a scenario with distinct agent ids, scenarioToAiTownPlan creates exactly one
\* player, one agent and one assignment per scenario agent, with pairwise distinct player
\* ids and agent ids; every assignment's playerId is the id of a created player; and every
\* relationship memory has an owner player that differs from its target player
C26_PlanConsistent ==
  (/\ Planned
   /\ \A j, k \in 1..Len(direct[1].scenario.agents) :
        direct[1].scenario.agents[j].id = direct[1].scenario.agents[k].id => j = k)
  => /\ OnePerAgent(direct[1].scenario, direct[1].result)
     /\ \A i \in 1..Len(direct[1].result.relationshipMemories) :
          direct[1].result.relationshipMemories[i].ownerPlayerId
            # direct[1].result.relationshipMemories[i].targetPlayerId

\* C27: scenarioToAiTownPlan generates spawn positions within the map bounds: for any map
\* dimensions and any number of agents without an explicit startPosition, every created
\* player has 0 <= position.x <= width and 0 <= position.y <= height
C27_SpawnWithinBounds ==
  Planned =>
    \A k \in 1..Len(direct[1].scenario.agents) :
      direct[1].scenario.agents[k].startPosition = <<>> =>
        LET position == direct[1].result.world.players[k].position
        IN  /\ 0 <= position.x /\ position.x <= direct[1].result.map.width
            /\ 0 <= position.y /\ position.y <= direct[1].result.map.height

Applied == direct # <<>> /\ direct[1].op = "applyScenario"

ParticipantsOf(k) == direct[1].result.executions[k].assignment.participants

\* C31: across the executions returned by one assignTasks call, the idle fallback included,
\* every agent id appears among the participants of at most one execution and at most once
\* within it, and every participant is one of the agents passed in
C31_OneTaskPerAgent ==
  AssignCalled =>
    /\ \A j, k \in 1..Len(DirectExecutions) :
         \A p \in 1..Len(ParticipantsOf(j)) : \A q \in 1..Len(ParticipantsOf(k)) :
           ParticipantsOf(j)[p] = ParticipantsOf(k)[q] => j = k /\ p = q
    /\ \A k \in 1..Len(DirectExecutions) : \A p \in 1..Len(ParticipantsOf(k)) :
         ParticipantsOf(k)[p] \in IdsOf(direct[1].agents)

\* a call over three agents returned an execution of a task by two of them and the idle
\* fallback of the third
C31_Witness ==
  /\ AssignCalled
  /\ Len(DirectExecutions) = 2
  /\ direct[1].result.fallback
  /\ Len(direct[1].agents) = 3
  /\ Len(ParticipantsOf(1)) = 2
  /\ Len(ParticipantsOf(2)) = 1

\* C32: whatever the order of the task sequence, every execution the assignment loop
\* creates for a task (the idle fallback aside) has at least task.minParticipants and at
\* most task.recommendedParticipants participants
C32_ParticipantBounds ==
  AssignCalled =>
    \A k \in 1..LoopExecutions :
      /\ Len(ParticipantsOf(k)) >= DirectTask(DirectExecutions[k]).minParticipants
      /\ Len(ParticipantsOf(k)) <= DirectTask(DirectExecutions[k]).recommendedParticipants

\* a sequence not in the scenario's order, forage before the night watch, was assigned: two
\* agents forage and the one left keeps watch, below the two recommended
C32_Witness ==
  /\ AssignCalled
  /\ Len(direct[1].tasks) = 2
  /\ direct[1].tasks[1].id = "forage"
  /\ direct[1].tasks[2].id = "night_watch"
  /\ LoopExecutions = 2
  /\ Len(ParticipantsOf(1)) = 2
  /\ Len(ParticipantsOf(2)) = 1
  /\ ~direct[1].result.fallback

ShareCalled == direct # <<>> /\ direct[1].op = "computeShare"

RECURSIVE SumShares(_, _, _)
\* the sum of the shares of the first k participants
SumShares(shares, participants, k) ==
  IF k = 0 THEN 0 ELSE SumShares(shares, participants, k - 1) + shares[participants[k].id]

\* the most by which the shares of n participants, each cut to thousandths after a
\* division cut to thousandths, may fall short of the total
ShareSlack(totalReward, n) == n * ((totalReward \div Scale) + 2)

\* the shares are not negative and sum to the total reward, up to the thousandths cut off
SharesConserve(shares, participants, totalReward) ==
  /\ \A k \in 1..Len(participants) : shares[participants[k].id] >= 0
  /\ SumShares(shares, participants, Len(participants)) <= totalReward
  /\ SumShares(shares, participants, Len(participants))
       >= totalReward - ShareSlack(totalReward, Len(participants))

\* C33: reward is conserved by the distributing norms: for a task whose norm is equal_share,
\* proportional_skill or key_contributor_reward, all per-participant shares are >= 0 and
\* sum to the total reward (0 on failure), for any participant skills
C33_RewardConserved ==
  ShareCalled =>
    SharesConserve(direct[1].result, direct[1].participants, direct[1].totalReward)

\* whether the id is among the participants of one of the executions
Assigned(executions, id) ==
  \E e \in 1..Len(executions) : \E p \in 1..Len(executions[e].assignment.participants) :
    executions[e].assignment.participants[p] = id

\* the agents of run r that took part in no execution of its last stepDay, by position
IdleAgents(r) ==
  IF lastStep[r] = <<>> THEN {}
  ELSE {k \in 1..Len(lastStep[r][1].before.agents) :
          ~Assigned(LastExecutions(r), lastStep[r][1].before.agents[k].id)}

\* C34: an agent that participates in no execution on a day is left unchanged by that
\* stepDay() except possibly for lastReflectionDay: its energy, hungerDebt, emotion,
\* reputation, socialMemory, episodicMemory and lastActions are the same after the step
C34_IdleAgentFrame ==
  \A r \in Runs : \A k \in IdleAgents(r) :
    LET before == lastStep[r][1].before.agents[k]
        after == sim[r].agents[k]
    IN  /\ after.id = before.id
        /\ after.energy = before.energy
        /\ after.hungerDebt = before.hungerDebt
        /\ after.emotion = before.emotion
        /\ after.reputation = before.reputation
        /\ after.socialMemory = before.socialMemory
        /\ after.episodicMemory = before.episodicMemory
        /\ after.lastActions = before.lastActions

\* an agent that had worked on an earlier day took part in no execution of a day on which
\* others worked, and reflected: its energy is what the day before left, not charged the
\* daily need
C34_Witness ==
  \E k \in IdleAgents("A") :
    /\ Len(LastExecutions("A")) >= 1
    /\ lastStep["A"][1].before.agents[k].lastActions # <<>>
    /\ sim["A"].agents[k].energy = lastStep["A"][1].before.agents[k].energy
    /\ sim["A"].agents[k].energy > 0
    /\ sim["A"].agents[k].lastReflectionDay # lastStep["A"][1].before.agents[k].lastReflectionDay

HeuristicOrdered == direct # <<>> /\ direct[1].op = "heuristicOrder"

\* C35: on the heuristic path (the plan is heuristicPlan applied to config.tasks)
\* orderTasksByPlan returns the tasks in their config-declared order, for any task ids and
\* names
C35_HeuristicKeepsOrder ==
  HeuristicOrdered => direct[1].result = direct[1].tasks

\* ------------------------------------------ stored runs, day by day
\* an advanceSimulationRun on a running run has finished: it stepped and persisted
Stepped == Advanced /\ direct[1].last[1].metrics

\* C36: the currentDay of the stored run equals environment.day of the SimulationState in its
\* state JSON, 0 right after startSimulationRun; an advanceSimulationRun on a running run that
\* no other one overlaps leaves currentDay one higher than it loaded it, with exactly one more
\* row of daily metrics and one more network snapshot, both of the new day, and the new state
C36_DayMatchesState ==
  direct # <<>> /\ direct[1].op = "runs" =>
    /\ Tables.run.currentDay = JSONParse(Tables.run.state).environment.day
    /\ (direct[1].last = <<>> /\ Tables.hadzaDailyMetrics = <<>>) => Tables.run.currentDay = 0
    /\ Stepped =>
         LET last == direct[1].last[1]
             args == StepArgs(getScenarioConfig(last.loaded.scenario)[1], last.loaded)
         IN  /\ last.left.run.currentDay = last.loaded.currentDay + 1
             /\ last.day = last.left.run.currentDay
             /\ last.left.run.state = args.state
             /\ JSONParse(last.left.run.state).environment.day = last.left.run.currentDay
             /\ last.left.hadzaDailyMetrics =
                  Append(last.found.hadzaDailyMetrics, [runId |-> 1, day |-> last.day])
             /\ last.left.hadzaNetworkSnapshots =
                  Append(last.found.hadzaNetworkSnapshots,
                         [runId |-> 1, day |-> last.day, edges |-> args.edges])

\* the run was advanced twice: it is at day 2 and the tables hold the metrics and the
\* network snapshots of day 1 and of day 2, one row each
C36_Witness ==
  /\ Stepped
  /\ direct[1].last[1].loaded.currentDay = 1
  /\ Tables.run.currentDay = 2
  /\ JSONParse(Tables.run.state).environment.day = 2
  /\ [k \in 1..Len(Tables.hadzaDailyMetrics) |-> Tables.hadzaDailyMetrics[k].day] = <<1, 2>>
  /\ [k \in 1..Len(Tables.hadzaNetworkSnapshots) |-> Tables.hadzaNetworkSnapshots[k].day] = <<1, 2>>

\* no two rows of the table are of the same day (all rows are of the one run)
OncePerDay(rows) == \A j, k \in 1..Len(rows) : j # k => rows[j].day # rows[k].day

\* C37: however invocations of advanceSimulationRun on the same run interleave, each day is
\* persisted at most once: no two rows of daily metrics and no two network snapshots are of
\* the same day of the run, and no invocation overwrites the state of the run with the step
\* of a state that another invocation has advanced since it was loaded
C37_DayPersistedOnce ==
  direct # <<>> /\ direct[1].op = "overlap" =>
    /\ OncePerDay(Tables.hadzaDailyMetrics)
    /\ OncePerDay(Tables.hadzaNetworkSnapshots)
    /\ direct[1].last # <<>> => direct[1].last[1].found.run.state = direct[1].last[1].loaded.state

\* ------------------------------------------ configurator: the other worlds
\* the last mutation on the two worlds wiped its world: a resetWorld, or an applyScenario
\* with resetFirst = true
WorldWiped ==
  direct # <<>> /\ direct[1].op \in {"applyToWorld", "resetWorld"} /\ direct[1].resetFirst

\* the rows of a table of memories or embeddings that belong to world v in database dbs
RowsOfWorld(dbs, v, rows, key(_)) ==
  SelectSeq(rows, LAMBDA row : key(row) \in dbs.of[v].memoryIds)

\* world v has in database after what it had in database before: descriptions, snapshots,
\* memories and memory embeddings
WorldKept(before, after, v) ==
  /\ after.of[v].playerDescriptions = before.of[v].playerDescriptions
  /\ after.of[v].agentDescriptions = before.of[v].agentDescriptions
  /\ after.of[v].configuratorScenarioSnapshots = before.of[v].configuratorScenarioSnapshots
  /\ after.of[v].memoryIds = before.of[v].memoryIds
  /\ RowsOfWorld(after, v, after.memories, LAMBDA row : row.embeddingId)
       = RowsOfWorld(before, v, before.memories, LAMBDA row : row.embeddingId)
  /\ RowsOfWorld(after, v, after.memoryEmbeddings, LAMBDA row : row.id)
       = RowsOfWorld(before, v, before.memoryEmbeddings, LAMBDA row : row.id)

\* C38: resetting a world, or applying a scenario to it with resetFirst = true, changes only
\* what belongs to that world: every other world has the same memories, memory embeddings,
\* descriptions and scenario snapshots afterwards as before
C38_OtherWorldsKept ==
  WorldWiped =>
    \A v \in WorldIds \ {direct[1].worldId} : WorldKept(direct[1].before, direct[1].dbs, v)
====
